---- MODULE Spec2Model ----
(***************************************************************************)
(* Chunked text-to-speech generation and sequential playback of            *)
(* timlenardo/consumemate.                                                 *)
(*                                                                         *)
(*  - AudioPlayerService (Swift): the playback sequencer.                  *)
(*  - ArticleDetailViewModel (Swift): the generation loop that feeds it.   *)
(*  - generateAudioChunk / ElevenLabsTTSProvider.generateChunk (backend):  *)
(*    the chunk request with its cache and its provider calls.             *)
(*  - ArticleScreen (mobile): the generation loop and playback handlers.   *)
(*    Its sound (createAsync, setRateAsync, setPositionAsync) and the      *)
(*    clearing and restarting of a generation are modelled apart.          *)
(*  - splitIntoChunks / getChunkCount / generateChunk: the text splitter,  *)
(*    with the maximum chunk size scaled down to MaxChunkChars.            *)
(*  - convertWithTimestamps / generateEstimatedWordTimings: word timings.  *)
(*  - Article.audioChunksData: the cached chunks of one article row.       *)
(*                                                                         *)
(* Times of the Swift player are TimeInterval values (seconds, Double);    *)
(* they are kept here in ticks of 1/SubMs millisecond, so that the         *)
(* conversion Int(t * 1000) of the source is a truncation and not the      *)
(* identity.                                                               *)
(***************************************************************************)
EXTENDS Integers, Sequences, FiniteSets, TLC

\* ------------------------------------------------------------------ bounds
\* Chunk indices of an article are 0 .. MaxChunks-1.
MaxChunks == 3

\* Ticks per millisecond (resolution of a TimeInterval in the model).
SubMs == 2

\* Chunk requests the backend receives.
MaxRequests == 2

\* ------------------------------------------------------- program constants
\* AudioPlayerService.updateTime: player.currentTime >= player.duration - 0.05
CompletionToleranceMs == 50

\* AudioPlayerService.skipSeconds
skipSeconds == 15

VARIABLES
  \* --- AudioPlayerService
  isPlaying, currentTime, duration, currentWordIndex, playbackRate,
  chunksLoaded, totalChunks, isLoadingChunks, isWaitingForNextChunk,
  player, chunks, allWordTimings, currentChunkIndex, chunkStartTimes,
  updateTimer,
  \* --- backend: the stored chunks of the article, the chunk requests
  audioChunkCache, requests,
  \* --- ArticleDetailViewModel and its view (Swift)
  viewModel, viewAppeared,
  \* --- ArticleScreen (mobile): state and refs, the generateAudio call, the
  \* last button press and what it did
  screen, generation, pressLog,
  \* --- AudioPlayerService: the published error, the failures it printed
  error, failureLog,
  \* --- Article.audioChunksData and the last answer to a chunk request
  audioChunksData, chunkResponse,
  \* --- the text splitter and the word-timing extractor, each with its
  \* input and what it returned
  splitter, extractor,
  \* --- ArticleScreen (mobile): the sound of the chunk that is played, the
  \* speed, the position
  playback,
  \* --- one listening session on AudioPlayerService: whether play() started
  \* it, and the chunks whose audio the engine played to the end
  listening,
  \* --- ArticleScreen (mobile): a generateAudio call that was superseded by a
  \* later one while its request was in flight
  staleGeneration

playerVars == << isPlaying, currentTime, duration, currentWordIndex, playbackRate,
                 chunksLoaded, totalChunks, isLoadingChunks, isWaitingForNextChunk,
                 player, chunks, allWordTimings, currentChunkIndex, chunkStartTimes,
                 updateTimer >>

backendVars == << audioChunkCache, requests >>

sessionVars == << viewModel, viewAppeared >>

screenVars == << screen, generation, pressLog >>

faultVars == << error, failureLog >>

articleVars == << audioChunksData, chunkResponse >>

textVars == << splitter, extractor >>

mobileVars == << playback >>

listeningVars == << listening >>

supersededVars == << staleGeneration >>

\* What the chunk requests, the generation loops and the playback calls
\* without an engine failure leave alone.
restVars ==
  << faultVars, articleVars, textVars, mobileVars, listeningVars, supersededVars >>

\* Everything but the sequencing fields of AudioPlayerService.
aroundPlayerVars == << backendVars, sessionVars, screenVars, restVars >>

\* ------------------------------------------------------------ time helpers
Ticks(ms) == ms * SubMs

\* Int(t * 1000): a TimeInterval in whole milliseconds, truncated.
MsOf(t) == t \div SubMs

Min(a, b) == IF a <= b THEN a ELSE b

Max(a, b) == IF a >= b THEN a ELSE b

\* ------------------------------------------------------------- chunk data
ChunkIndices == 0 .. (MaxChunks - 1)

\* Nominal duration of the audio of chunk i, in ms (what AVAudioPlayer
\* reports for the decoded data); the first three are the durations of the
\* seek example.
NominalDurationMs(i) ==
  CASE i = 0 -> 10000
    [] i = 1 -> 8000
    [] i = 2 -> 12000
    [] OTHER -> 9000

\* The sub-millisecond part of the decoded duration of chunk i, in ticks:
\* none for chunk 0, just under a millisecond for the others.
FractionOf(i) == IF i = 0 THEN 0 ELSE SubMs - 1

\* Duration AVAudioPlayer reports for the audio of chunk i, in ticks.
DecodedDuration(i) == Ticks(NominalDurationMs(i)) + FractionOf(i)

\* Chunk-local word timings (ms) delivered with chunk i.
LocalTimings(i) ==
  << [word |-> << i, 0 >>, start |-> 100, end |-> 4000],
     [word |-> << i, 1 >>, start |-> 4500, end |-> 7000] >>

\* struct AudioChunk; data is identified by the chunk index it encodes.
AudioChunk(index, timings, dur) ==
  [index |-> index, data |-> index, wordTimings |-> timings, duration |-> dur]

\* AVAudioPlayer? : nil, or a handle on decoded audio data.
NoPlayer ==
  [loaded |-> FALSE, data |-> -1, duration |-> 0, currentTime |-> 0,
   isPlaying |-> FALSE, rate |-> 0]

\* try AVAudioPlayer(data:) followed by enableRate, rate, prepareToPlay.
NewPlayer(chunk, rate) ==
  [loaded |-> TRUE, data |-> chunk.data, duration |-> chunk.duration,
   currentTime |-> 0, isPlaying |-> FALSE, rate |-> rate]

\* static let playbackSpeeds: [Float] = [1.0, 1.2, 1.5, 1.7, 2.0] (tenths)
playbackSpeeds == << 10, 12, 15, 17, 20 >>

\* ------------------------------------------------- the service as a record
PlayerState ==
  [isPlaying |-> isPlaying, currentTime |-> currentTime, duration |-> duration,
   currentWordIndex |-> currentWordIndex, playbackRate |-> playbackRate,
   chunksLoaded |-> chunksLoaded, totalChunks |-> totalChunks,
   isLoadingChunks |-> isLoadingChunks,
   isWaitingForNextChunk |-> isWaitingForNextChunk,
   player |-> player, chunks |-> chunks, allWordTimings |-> allWordTimings,
   currentChunkIndex |-> currentChunkIndex, chunkStartTimes |-> chunkStartTimes,
   updateTimer |-> updateTimer]

SetPlayerState(s) ==
  /\ isPlaying' = s.isPlaying
  /\ currentTime' = s.currentTime
  /\ duration' = s.duration
  /\ currentWordIndex' = s.currentWordIndex
  /\ playbackRate' = s.playbackRate
  /\ chunksLoaded' = s.chunksLoaded
  /\ totalChunks' = s.totalChunks
  /\ isLoadingChunks' = s.isLoadingChunks
  /\ isWaitingForNextChunk' = s.isWaitingForNextChunk
  /\ player' = s.player
  /\ chunks' = s.chunks
  /\ allWordTimings' = s.allWordTimings
  /\ currentChunkIndex' = s.currentChunkIndex
  /\ chunkStartTimes' = s.chunkStartTimes
  /\ updateTimer' = s.updateTimer

SetInit(s) ==
  /\ isPlaying = s.isPlaying
  /\ currentTime = s.currentTime
  /\ duration = s.duration
  /\ currentWordIndex = s.currentWordIndex
  /\ playbackRate = s.playbackRate
  /\ chunksLoaded = s.chunksLoaded
  /\ totalChunks = s.totalChunks
  /\ isLoadingChunks = s.isLoadingChunks
  /\ isWaitingForNextChunk = s.isWaitingForNextChunk
  /\ player = s.player
  /\ chunks = s.chunks
  /\ allWordTimings = s.allWordTimings
  /\ currentChunkIndex = s.currentChunkIndex
  /\ chunkStartTimes = s.chunkStartTimes
  /\ updateTimer = s.updateTimer

\* State after AudioPlayerService.init().
InitialPlayerState ==
  [isPlaying |-> FALSE, currentTime |-> 0, duration |-> 0,
   currentWordIndex |-> -1, playbackRate |-> 10,
   chunksLoaded |-> 0, totalChunks |-> 0, isLoadingChunks |-> FALSE,
   isWaitingForNextChunk |-> FALSE,
   player |-> NoPlayer, chunks |-> << >>, allWordTimings |-> << >>,
   currentChunkIndex |-> 0, chunkStartTimes |-> << >>,
   updateTimer |-> FALSE]

\* ------------------------------------------------ AudioPlayerService code
\* chunks.append(chunk); chunks.sort { $0.index < $1.index }
RECURSIVE SortedInsert(_, _)
SortedInsert(list, chunk) ==
  IF list = << >> THEN << chunk >>
  ELSE IF chunk.index < Head(list).index
       THEN << chunk >> \o list
       ELSE << Head(list) >> \o SortedInsert(Tail(list), chunk)

\* recalculateTimings: chunkStartTimes, as the loop appends them.
RECURSIVE StartTimesFrom(_, _)
StartTimesFrom(list, cumulativeTime) ==
  IF list = << >> THEN << >>
  ELSE << cumulativeTime >>
       \o StartTimesFrom(Tail(list), cumulativeTime + Head(list).duration)

\* A recalculateTimings that appends the chunk-local timings unshifted.
AdjustedTimings_noOffset(chunk, cumulativeTime) ==
  [k \in 1 .. Len(chunk.wordTimings) |-> chunk.wordTimings[k]]

\* recalculateTimings: one chunk's timings adjusted to global time.
AdjustedTimings(chunk, cumulativeTime) ==
  [k \in 1 .. Len(chunk.wordTimings) |->
     [word |-> chunk.wordTimings[k].word,
      start |-> chunk.wordTimings[k].start + MsOf(cumulativeTime),
      end |-> chunk.wordTimings[k].end + MsOf(cumulativeTime)]]

\* recalculateTimings: allWordTimings, as the loop appends them.
RECURSIVE GlobalTimingsFrom(_, _)
GlobalTimingsFrom(list, cumulativeTime) ==
  IF list = << >> THEN << >>
  ELSE AdjustedTimings(Head(list), cumulativeTime)
       \o GlobalTimingsFrom(Tail(list), cumulativeTime + Head(list).duration)

RECURSIVE SumDurations(_)
SumDurations(list) ==
  IF list = << >> THEN 0 ELSE Head(list).duration + SumDurations(Tail(list))

recalculateTimings(s) ==
  [s EXCEPT !.chunkStartTimes = StartTimesFrom(s.chunks, 0),
            !.allWordTimings = GlobalTimingsFrom(s.chunks, 0),
            !.duration = SumDurations(s.chunks)]

\* updateCurrentWord: the first timing containing currentMs, else unchanged.
updateCurrentWord(s) ==
  LET currentMs == MsOf(s.currentTime)
      hits == { k \in 1 .. Len(s.allWordTimings) :
                  /\ currentMs >= s.allWordTimings[k].start
                  /\ currentMs < s.allWordTimings[k].end }
  IN IF hits = {} THEN s
     ELSE [s EXCEPT !.currentWordIndex =
             (CHOOSE k \in hits : \A j \in hits : k <= j) - 1]

\* loadChunkIntoPlayer(chunkIndex); chunkIndex is a position of the array.
loadChunkIntoPlayer(s, chunkIndex) ==
  IF ~(chunkIndex < Len(s.chunks)) THEN s
  ELSE LET wasPlaying == s.isPlaying
           fresh == NewPlayer(s.chunks[chunkIndex + 1], s.playbackRate)
       IN [s EXCEPT !.player = [fresh EXCEPT !.isPlaying = wasPlaying],
                    !.currentChunkIndex = chunkIndex]

\* player?.play()
EnginePlay(s) ==
  IF s.player.loaded THEN [s EXCEPT !.player.isPlaying = TRUE] ELSE s

\* player?.pause() and player?.stop(): the engine halts, its position stays.
EngineHalt(s) ==
  IF s.player.loaded THEN [s EXCEPT !.player.isPlaying = FALSE] ELSE s

\* An advanceToNextChunk that tests totalChunks before the loaded list.
advanceToNextChunk_waitsFirst(s) ==
  LET nextIndex == s.currentChunkIndex + 1
  IN IF nextIndex < s.totalChunks
     THEN [s EXCEPT !.isWaitingForNextChunk = TRUE]
     ELSE IF nextIndex < Len(s.chunks)
          THEN EnginePlay(loadChunkIntoPlayer(s, nextIndex))
          ELSE [s EXCEPT !.isPlaying = FALSE,
                         !.isWaitingForNextChunk = FALSE,
                         !.updateTimer = FALSE]

advanceToNextChunk(s) ==
  LET nextIndex == s.currentChunkIndex + 1
  IN IF nextIndex < Len(s.chunks)
     THEN EnginePlay(loadChunkIntoPlayer(s, nextIndex))
     ELSE IF nextIndex < s.totalChunks
          THEN [s EXCEPT !.isWaitingForNextChunk = TRUE]
          ELSE [s EXCEPT !.isPlaying = FALSE,
                         !.isWaitingForNextChunk = FALSE,
                         !.updateTimer = FALSE]

\* addChunk, after the data decoded: steps of the do-block in order.
addChunkDecoded(s, index, timings, dur) ==
  LET chunk == AudioChunk(index, timings, dur)
      s1 == recalculateTimings([s EXCEPT !.chunks = SortedInsert(s.chunks, chunk)])
      s2 == [s1 EXCEPT !.chunksLoaded = Len(s1.chunks)]
      s3 == IF index = 0 /\ ~s2.player.loaded
            THEN [s2 EXCEPT !.player = NewPlayer(chunk, s2.playbackRate),
                            !.currentChunkIndex = 0]
            ELSE s2
      s4 == IF s3.isWaitingForNextChunk /\ index = s3.currentChunkIndex + 1
            THEN advanceToNextChunk([s3 EXCEPT !.isWaitingForNextChunk = FALSE])
            ELSE s3
  IN IF s4.chunksLoaded = s4.totalChunks
     THEN [s4 EXCEPT !.isLoadingChunks = FALSE]
     ELSE s4

\* addChunk(index:base64Data:timings:); decodes is FALSE when
\* Data(base64Encoded:) or the temporary AVAudioPlayer fails.
addChunk(s, index, timings, dur, decodes) ==
  IF decodes THEN addChunkDecoded(s, index, timings, dur) ELSE s

play(s) ==
  IF ~s.player.loaded THEN s
  ELSE IF s.isWaitingForNextChunk THEN s
  ELSE [EnginePlay([s EXCEPT !.player.rate = s.playbackRate])
          EXCEPT !.isPlaying = TRUE, !.updateTimer = TRUE]

pause(s) ==
  [EngineHalt(s) EXCEPT !.isPlaying = FALSE,
                        !.isWaitingForNextChunk = FALSE,
                        !.updateTimer = FALSE]

togglePlayPause(s) ==
  IF s.isPlaying \/ s.isWaitingForNextChunk THEN pause(s) ELSE play(s)

\* seek(to:): the chunk position the loop over chunkStartTimes ends with.
SeekTargetChunk(s, targetTime) ==
  LET n == Min(Len(s.chunkStartTimes), Len(s.chunks))
      within == { p \in 0 .. (n - 1) :
                    /\ targetTime >= s.chunkStartTimes[p + 1]
                    /\ targetTime < s.chunkStartTimes[p + 1] + s.chunks[p + 1].duration }
      atEnd == { p \in 0 .. (n - 1) :
                    /\ p = Len(s.chunks) - 1
                    /\ targetTime >= s.chunkStartTimes[p + 1] + s.chunks[p + 1].duration }
  IN IF within # {} THEN CHOOSE p \in within : \A q \in within : p <= q
     ELSE IF atEnd # {} THEN CHOOSE p \in atEnd : TRUE
     ELSE 0

seek(s, time) ==
  LET targetTime == Max(0, Min(time, s.duration))
      targetChunkIndex == SeekTargetChunk(s, targetTime)
      s1 == IF targetChunkIndex # s.currentChunkIndex /\ targetChunkIndex < Len(s.chunks)
            THEN loadChunkIntoPlayer(s, targetChunkIndex)
            ELSE s
      s2 == IF s1.player.loaded /\ s1.currentChunkIndex < Len(s1.chunkStartTimes)
            THEN LET chunkStartTime == s1.chunkStartTimes[s1.currentChunkIndex + 1]
                     timeInChunk == targetTime - chunkStartTime
                 IN [s1 EXCEPT !.player.currentTime =
                       Max(0, Min(timeInChunk, s1.player.duration))]
            ELSE s1
  IN updateCurrentWord([s2 EXCEPT !.currentTime = targetTime])

skipForward(s) == seek(s, s.currentTime + Ticks(skipSeconds * 1000))

skipBackward(s) == seek(s, s.currentTime - Ticks(skipSeconds * 1000))

setPlaybackRate(s, rate) ==
  [s EXCEPT !.playbackRate = rate,
            !.player = IF s.player.loaded THEN [s.player EXCEPT !.rate = rate]
                       ELSE s.player]

\* cyclePlaybackRate: firstIndex { abs($0 - playbackRate) < 0.05 } ?? -1
cyclePlaybackRate(s) ==
  LET found == { k \in 1 .. Len(playbackSpeeds) : playbackSpeeds[k] = s.playbackRate }
      currentIndex == IF found = {} THEN -1
                      ELSE (CHOOSE k \in found : \A j \in found : k <= j) - 1
      nextIndex == (currentIndex + 1) % Len(playbackSpeeds)
  IN setPlaybackRate(s, playbackSpeeds[nextIndex + 1])

stop(s) ==
  [EngineHalt(s) EXCEPT !.isPlaying = FALSE,
                        !.isWaitingForNextChunk = FALSE,
                        !.currentTime = 0,
                        !.currentWordIndex = -1,
                        !.currentChunkIndex = 0,
                        !.updateTimer = FALSE]

cleanup(s) ==
  [stop(s) EXCEPT !.player = NoPlayer,
                  !.chunks = << >>,
                  !.allWordTimings = << >>,
                  !.chunkStartTimes = << >>,
                  !.chunksLoaded = 0,
                  !.totalChunks = 0,
                  !.duration = 0,
                  !.isLoadingChunks = FALSE,
                  !.isWaitingForNextChunk = FALSE]

prepareForChunkedAudio(s, total) ==
  [cleanup(s) EXCEPT !.totalChunks = total,
                     !.chunksLoaded = 0,
                     !.isLoadingChunks = TRUE,
                     !.chunks = << >>,
                     !.allWordTimings = << >>,
                     !.chunkStartTimes = << >>,
                     !.duration = 0]

\* The condition under which updateTime takes the chunk as finished.
ChunkFinished(s) ==
  /\ s.player.loaded
  /\ ~s.player.isPlaying
  /\ s.isPlaying
  /\ s.player.currentTime >= s.player.duration - Ticks(CompletionToleranceMs)

updateTime(s) ==
  IF ~s.player.loaded THEN s
  ELSE LET chunkStartTime ==
             IF s.currentChunkIndex < Len(s.chunkStartTimes)
             THEN s.chunkStartTimes[s.currentChunkIndex + 1] ELSE 0
           s1 == [s EXCEPT !.currentTime = chunkStartTime + s.player.currentTime]
           s2 == IF ChunkFinished(s1) THEN advanceToNextChunk(s1) ELSE s1
       IN updateCurrentWord(s2)

\* --------------------------------------------- AudioPlayerService actions
\* Indices not yet in the loaded list.
FreshIndices == ChunkIndices \ { chunks[k].index : k \in 1 .. Len(chunks) }

\* Seek targets (ms): below zero, inside chunk 0 past the length of
\* chunk 1, inside chunk 1, the nominal end of chunk 1, past the end of
\* three chunks.
SeekTargetsMs == { 0 - 1000, 9000, 15000, 18000, 31000 }

\* addChunk called with a chunk whose index is not loaded yet, in any order.
AddChunk ==
  \E index \in FreshIndices, decodes \in BOOLEAN :
    /\ SetPlayerState(addChunk(PlayerState, index, LocalTimings(index),
                               DecodedDuration(index), decodes))
    /\ UNCHANGED aroundPlayerVars

\* prepareForChunkedAudio for an article of 1 .. MaxChunks chunks.
PrepareForChunkedAudio ==
  \E total \in 1 .. MaxChunks :
    /\ SetPlayerState(prepareForChunkedAudio(PlayerState, total))
    /\ UNCHANGED aroundPlayerVars

Play ==
  /\ SetPlayerState(play(PlayerState))
  /\ UNCHANGED aroundPlayerVars

Pause ==
  /\ SetPlayerState(pause(PlayerState))
  /\ UNCHANGED aroundPlayerVars

TogglePlayPause ==
  /\ SetPlayerState(togglePlayPause(PlayerState))
  /\ UNCHANGED aroundPlayerVars

Seek ==
  \E t \in SeekTargetsMs :
    /\ SetPlayerState(seek(PlayerState, Ticks(t)))
    /\ UNCHANGED aroundPlayerVars

\* skipForward and skipBackward are seek(to:) with a target relative to
\* currentTime; NextPlayer draws the targets of seek from SeekTargetsMs.
SkipForward ==
  /\ SetPlayerState(skipForward(PlayerState))
  /\ UNCHANGED aroundPlayerVars

SkipBackward ==
  /\ SetPlayerState(skipBackward(PlayerState))
  /\ UNCHANGED aroundPlayerVars

Stop ==
  /\ SetPlayerState(stop(PlayerState))
  /\ UNCHANGED aroundPlayerVars

Cleanup ==
  /\ SetPlayerState(cleanup(PlayerState))
  /\ UNCHANGED aroundPlayerVars

\* The repeating update timer fires (startUpdateTimer ... stopUpdateTimer).
UpdateTime ==
  /\ updateTimer
  /\ SetPlayerState(updateTime(PlayerState))
  /\ UNCHANGED aroundPlayerVars

\* The audio engine plays on: the handle's position moves into the chunk.
EngineProgress ==
  /\ player.loaded /\ player.isPlaying
  /\ player.currentTime < player.duration \div 2
  /\ player' = [player EXCEPT !.currentTime = player.duration \div 2]
  /\ UNCHANGED << isPlaying, currentTime, duration, currentWordIndex, playbackRate,
                  chunksLoaded, totalChunks, isLoadingChunks, isWaitingForNextChunk,
                  chunks, allWordTimings, currentChunkIndex, chunkStartTimes,
                  updateTimer >>
  /\ UNCHANGED aroundPlayerVars

\* The audio engine reaches the end of the loaded audio and stops.
EngineFinish ==
  /\ player.loaded /\ player.isPlaying
  /\ player' = [player EXCEPT !.currentTime = player.duration, !.isPlaying = FALSE]
  /\ UNCHANGED << isPlaying, currentTime, duration, currentWordIndex, playbackRate,
                  chunksLoaded, totalChunks, isLoadingChunks, isWaitingForNextChunk,
                  chunks, allWordTimings, currentChunkIndex, chunkStartTimes,
                  updateTimer >>
  /\ UNCHANGED aroundPlayerVars

\* ================================================================ backend
\* Voice ids a chunk request may name.
Voices == { "voiceA" }

RequestIds == 1 .. MaxRequests

\* Chunk indices a request may carry: those of the article and one past them.
RequestedIndices == 0 .. MaxChunks

\* Failures of a call to the synthesis provider; the error's message tells
\* the kind.
ProviderFailures == { "quota_exceeded", "network", "invalid_voice" }

\* Audio bytes returned by the provider for a chunk: the provider may render
\* the same text to different bytes on each call, so the bytes carry the
\* call (request and attempt) that produced them.
Buffer(chunkIndex, call) == [chunk |-> chunkIndex, call |-> call]

NoBuffer == Buffer(0 - 1, << 0, 0 >>)

\* result.audio.toString('base64')
toBase64(buffer) == [base64 |-> buffer]

\* A stored chunk; present is FALSE where nothing is stored.
NoChunk == [present |-> FALSE, audioData |-> toBase64(NoBuffer), wordTimings |-> << >>]

\* The chunk store of the article, keyed by voice and chunk index.
EmptyChunkCache == [key \in Voices \X ChunkIndices |-> NoChunk]

\* The store after an earlier generation with voice voiceId that got every
\* chunk but the last.
PartlyGenerated(voiceId) ==
  [key \in Voices \X ChunkIndices |->
     IF key[1] = voiceId /\ key[2] < MaxChunks - 1
     THEN [present |-> TRUE,
           audioData |-> toBase64(Buffer(key[2], << 0, 1 >>)),
           wordTimings |-> LocalTimings(key[2])]
     ELSE NoChunk]

\* articleService.getCachedChunk(article, voiceId, chunkIndex)
getCachedChunk(cache, voiceId, chunkIndex) ==
  IF << voiceId, chunkIndex >> \in DOMAIN cache
  THEN cache[<< voiceId, chunkIndex >>]
  ELSE NoChunk

\* articleService.saveAudioChunk(articleId, voiceId, chunkIndex, ...)
saveAudioChunk(cache, voiceId, chunkIndex, audioBase64, wordTimings) ==
  [cache EXCEPT ![<< voiceId, chunkIndex >>] =
     [present |-> TRUE, audioData |-> audioBase64, wordTimings |-> wordTimings]]

\* ttsService.getChunkCount(plainText) for the article.
getChunkCount == MaxChunks

NoResult == [audio |-> NoBuffer, wordTimings |-> << >>]

NoResponse ==
  [status |-> 0, audioData |-> toBase64(NoBuffer), wordTimings |-> << >>,
   cached |-> FALSE, message |-> ""]

\* What the caller of the client's chunk request ends with.
NoOutcome == [rejected |-> FALSE, message |-> "", lastError |-> ""]

\* A chunk request not yet received.
IdleRequest ==
  [pc |-> "idle", voiceId |-> "", chunkIndex |-> 0 - 1,
   providerCalls |-> 0, failures |-> << >>,
   result |-> NoResult, saved |-> FALSE,
   response |-> NoResponse, caller |-> NoOutcome]

\* errorHandler: an Error that is neither ZodError nor ResponseError.
errorHandler(message) ==
  [status |-> 500, audioData |-> toBase64(NoBuffer), wordTimings |-> << >>,
   cached |-> FALSE, message |-> message]

\* ApiClient.request: the data on success, else
\* throw new Error(data.message || 'Request failed').
request(response) ==
  IF response.status = 200
  THEN [rejected |-> FALSE, message |-> ""]
  ELSE [rejected |-> TRUE,
        message |-> IF response.message # "" THEN response.message
                    ELSE "Request failed"]

\* error.message?.includes('quota') || error.message?.includes('401')
MentionsQuota(message) == message = "quota_exceeded"

\* ElevenLabsProvider.generateChunkForArticle: lastError is set from the
\* message and the error is thrown on as it is.
generateChunkForArticle(response) ==
  LET outcome == request(response)
  IN [rejected |-> outcome.rejected,
      message |-> outcome.message,
      lastError |-> IF ~outcome.rejected THEN ""
                    ELSE IF MentionsQuota(outcome.message) THEN "quota_exceeded"
                    ELSE IF outcome.message # "" THEN outcome.message
                    ELSE "Unknown error"]

\* The callback returned: callbackHandler sends the result as JSON.
Respond(req, response) ==
  [req EXCEPT !.pc = "responded",
              !.response = response,
              !.caller = generateChunkForArticle(response)]

\* The callback threw: callbackHandler passes the error to errorHandler.
Reject(req, message) == Respond(req, errorHandler(message))

\* generateChunk up to its first provider call.
generateChunk(req) ==
  IF req.chunkIndex < 0 \/ req.chunkIndex >= getChunkCount
  THEN Reject(req, "Invalid chunk index")
  ELSE [req EXCEPT !.pc = "convertWithTimestamps", !.providerCalls = 1]

\* A generateAudioChunk that goes to the provider without a cache lookup.
generateAudioChunk_noLookup(req, cache, voiceId, chunkIndex) ==
  generateChunk([req EXCEPT !.voiceId = voiceId, !.chunkIndex = chunkIndex])

\* generateAudioChunk from the receipt of the request to the cached answer
\* or to the call of generateChunk.
generateAudioChunk(req, cache, voiceId, chunkIndex) ==
  LET cachedChunk == getCachedChunk(cache, voiceId, chunkIndex)
      received == [req EXCEPT !.voiceId = voiceId, !.chunkIndex = chunkIndex]
  IN IF cachedChunk.present
     THEN Respond(received,
                  [status |-> 200, audioData |-> cachedChunk.audioData,
                   wordTimings |-> cachedChunk.wordTimings,
                   cached |-> TRUE, message |-> ""])
     ELSE generateChunk(received)

\* generateChunk: convertWithTimestamps returned; the alignment may be absent.
convertWithTimestampsReturned(req, call, alignment) ==
  [req EXCEPT !.pc = "saveAudioChunk",
              !.result = [audio |-> Buffer(req.chunkIndex, call),
                          wordTimings |-> IF alignment
                                          THEN LocalTimings(req.chunkIndex)
                                          ELSE << >>]]

\* generateChunk: convertWithTimestamps threw; the catch block logs the
\* error and calls convertChunkToAudio.
convertWithTimestampsFailed(req, kind) ==
  [req EXCEPT !.pc = "convertChunkToAudio",
              !.failures = Append(@, kind),
              !.providerCalls = @ + 1]

\* generateChunk: convertChunkToAudio returned.
convertChunkToAudioReturned(req, call) ==
  [req EXCEPT !.pc = "saveAudioChunk",
              !.result = [audio |-> Buffer(req.chunkIndex, call),
                          wordTimings |-> << >>]]

\* A fallback whose failure is swallowed into a result without audio.
convertChunkToAudioFailed_swallowed(req, kind) ==
  [req EXCEPT !.pc = "saveAudioChunk",
              !.failures = Append(@, kind),
              !.result = NoResult]

\* generateChunk: convertChunkToAudio threw; the error leaves generateChunk
\* and the controller.
convertChunkToAudioFailed(req, kind) ==
  Reject([req EXCEPT !.failures = Append(@, kind)], kind)

\* generateAudioChunk after saveAudioChunk: the answer with the new audio.
respondGenerated(req) ==
  Respond([req EXCEPT !.saved = TRUE],
          [status |-> 200, audioData |-> toBase64(req.result.audio),
           wordTimings |-> req.result.wordTimings,
           cached |-> FALSE, message |-> ""])

\* --------------------------------------------------------- backend actions
\* Requests are received in the order of their ids.
NextToReceive(r) ==
  /\ requests[r].pc = "idle"
  /\ \A q \in RequestIds : q < r => requests[q].pc # "idle"

ReceiveChunkRequest ==
  \E r \in RequestIds, voiceId \in Voices, chunkIndex \in RequestedIndices :
    /\ NextToReceive(r)
    /\ requests' = [requests EXCEPT ![r] =
         generateAudioChunk(requests[r], audioChunkCache, voiceId, chunkIndex)]
    /\ UNCHANGED audioChunkCache
    /\ UNCHANGED << restVars, playerVars, sessionVars, screenVars >>

ConvertWithTimestampsReturns ==
  \E r \in RequestIds, alignment \in BOOLEAN :
    /\ requests[r].pc = "convertWithTimestamps"
    /\ requests' = [requests EXCEPT ![r] =
         convertWithTimestampsReturned(requests[r], << r, 1 >>, alignment)]
    /\ UNCHANGED audioChunkCache
    /\ UNCHANGED << restVars, playerVars, sessionVars, screenVars >>

ConvertWithTimestampsFails ==
  \E r \in RequestIds, kind \in ProviderFailures :
    /\ requests[r].pc = "convertWithTimestamps"
    /\ requests' = [requests EXCEPT ![r] =
         convertWithTimestampsFailed(requests[r], kind)]
    /\ UNCHANGED audioChunkCache
    /\ UNCHANGED << restVars, playerVars, sessionVars, screenVars >>

ConvertChunkToAudioReturns ==
  \E r \in RequestIds :
    /\ requests[r].pc = "convertChunkToAudio"
    /\ requests' = [requests EXCEPT ![r] =
         convertChunkToAudioReturned(requests[r], << r, 2 >>)]
    /\ UNCHANGED audioChunkCache
    /\ UNCHANGED << restVars, playerVars, sessionVars, screenVars >>

ConvertChunkToAudioFails ==
  \E r \in RequestIds, kind \in ProviderFailures :
    /\ requests[r].pc = "convertChunkToAudio"
    /\ requests' = [requests EXCEPT ![r] =
         convertChunkToAudioFailed(requests[r], kind)]
    /\ UNCHANGED audioChunkCache
    /\ UNCHANGED << restVars, playerVars, sessionVars, screenVars >>

SaveAudioChunk ==
  \E r \in RequestIds :
    /\ requests[r].pc = "saveAudioChunk"
    /\ audioChunkCache' =
         saveAudioChunk(audioChunkCache, requests[r].voiceId, requests[r].chunkIndex,
                        toBase64(requests[r].result.audio),
                        requests[r].result.wordTimings)
    /\ requests' = [requests EXCEPT ![r] = respondGenerated(requests[r])]
    /\ UNCHANGED << restVars, playerVars, sessionVars, screenVars >>

InitBackend ==
  /\ audioChunkCache \in {EmptyChunkCache} \cup { PartlyGenerated(v) : v \in Voices }
  /\ requests = [r \in RequestIds |-> IdleRequest]

NextBackend ==
  \/ ReceiveChunkRequest
  \/ ConvertWithTimestampsReturns
  \/ ConvertWithTimestampsFails
  \/ ConvertChunkToAudioReturns
  \/ ConvertChunkToAudioFails
  \/ SaveAudioChunk

\* ================================================= ArticleDetailViewModel
\* State of the view model before generateAudio has been called.
IdleViewModel ==
  [pc |-> "idle", chunkIndex |-> 0, totalChunks |-> 0,
   isGeneratingAudio |-> FALSE, error |-> FALSE]

\* AudioPlayerService.canPlay
canPlay(s) == s.chunksLoaded > 0 /\ s.player.loaded

\* The loop with its index running one ahead of the response.
RequestChunkOrReturn_skipsAhead(vm, chunkIndex) ==
  IF chunkIndex + 1 < vm.totalChunks
  THEN [vm EXCEPT !.pc = "generateAudioChunk", !.chunkIndex = chunkIndex + 1]
  ELSE [vm EXCEPT !.pc = "returned"]

\* generateAudio: the head of the for loop at chunkIndex.
RequestChunkOrReturn(vm, chunkIndex) ==
  IF chunkIndex < vm.totalChunks
  THEN [vm EXCEPT !.pc = "generateAudioChunk", !.chunkIndex = chunkIndex]
  ELSE [vm EXCEPT !.pc = "returned"]

\* generateAudio: the catch block.
GenerationFailed(vm) ==
  [vm EXCEPT !.pc = "returned", !.error = TRUE, !.isGeneratingAudio = FALSE]

\* The voice selector's onGenerate: Task { await viewModel.generateAudio() },
\* up to the call of getAudioChunkCount. The generate bar is shown while the
\* player can neither play nor is loading chunks.
VMGenerateAudio ==
  /\ viewAppeared
  /\ viewModel.pc \in { "idle", "returned" }
  /\ ~(canPlay(PlayerState) \/ isLoadingChunks)
  /\ viewModel' = [viewModel EXCEPT !.pc = "getAudioChunkCount",
                                    !.isGeneratingAudio = TRUE,
                                    !.error = FALSE]
  /\ UNCHANGED << restVars, playerVars, backendVars, screenVars, viewAppeared >>

\* getAudioChunkCount returned: prepareForChunkedAudio, then the first
\* chunk request.
VMChunkCountReturns ==
  \E total \in 1 .. MaxChunks :
    /\ viewModel.pc = "getAudioChunkCount"
    /\ SetPlayerState(prepareForChunkedAudio(PlayerState, total))
    /\ viewModel' = RequestChunkOrReturn([viewModel EXCEPT !.totalChunks = total], 0)
    /\ UNCHANGED << restVars, backendVars, screenVars, viewAppeared >>

VMChunkCountFails ==
  /\ viewModel.pc = "getAudioChunkCount"
  /\ viewModel' = GenerationFailed(viewModel)
  /\ UNCHANGED << restVars, playerVars, backendVars, screenVars, viewAppeared >>

\* generateAudioChunk returned: addChunk, then the next chunk request.
VMChunkReturns ==
  \E decodes \in BOOLEAN :
    /\ viewModel.pc = "generateAudioChunk"
    /\ SetPlayerState(addChunk(PlayerState, viewModel.chunkIndex,
                               LocalTimings(viewModel.chunkIndex),
                               DecodedDuration(viewModel.chunkIndex), decodes))
    /\ viewModel' =
         RequestChunkOrReturn(
           [viewModel EXCEPT !.isGeneratingAudio =
              IF viewModel.chunkIndex = 0 THEN FALSE ELSE @],
           viewModel.chunkIndex + 1)
    /\ UNCHANGED << restVars, backendVars, screenVars, viewAppeared >>

VMChunkFails ==
  /\ viewModel.pc = "generateAudioChunk"
  /\ viewModel' = GenerationFailed(viewModel)
  /\ UNCHANGED << restVars, playerVars, backendVars, screenVars, viewAppeared >>

\* .onDisappear { viewModel.cleanup() }
ViewDisappears ==
  /\ viewAppeared
  /\ viewAppeared' = FALSE
  /\ SetPlayerState(cleanup(PlayerState))
  /\ UNCHANGED << restVars, backendVars, screenVars, viewModel >>

\* The play button of the bottom bar.
ViewTogglePlayPause ==
  /\ viewAppeared
  /\ canPlay(PlayerState) \/ isWaitingForNextChunk
  /\ SetPlayerState(togglePlayPause(PlayerState))
  /\ UNCHANGED << restVars, backendVars, screenVars, sessionVars >>

\* The slider of the bottom bar.
ViewSeek ==
  \E t \in SeekTargetsMs :
    /\ viewAppeared
    /\ canPlay(PlayerState)
    /\ SetPlayerState(seek(PlayerState, Ticks(t)))
    /\ UNCHANGED << restVars, backendVars, screenVars, sessionVars >>

InitSession ==
  /\ viewModel = IdleViewModel
  /\ viewAppeared = TRUE

NextSession ==
  \/ VMGenerateAudio
  \/ VMChunkCountReturns
  \/ VMChunkCountFails
  \/ VMChunkReturns
  \/ VMChunkFails
  \/ ViewDisappears
  \/ ViewTogglePlayPause
  \/ ViewSeek
  \/ UpdateTime
  \/ EngineFinish

\* ================================================== ArticleScreen (mobile)
\* soundRef.current: null, or a sound created by playChunk for chunkIndex.
\* totalChunksSeen is the totalChunks state in the closure of that playChunk.
NoSound ==
  [ref |-> FALSE, loaded |-> FALSE, chunkIndex |-> 0 - 1, isPlaying |-> FALSE,
   totalChunksSeen |-> 0]

\* State and refs of the screen after the first render.
InitialScreen(hasAudio) ==
  [mounted |-> TRUE, articleHasAudio |-> hasAudio,
   audioLoading |-> FALSE, showAudioControlModal |-> FALSE,
   showPlayerControls |-> FALSE,
   isPlaying |-> FALSE, currentChunkIndex |-> 0, totalChunks |-> 0,
   soundRef |-> NoSound, audioChunksRef |-> << >>,
   isLoadingChunksRef |-> FALSE, shouldStopLoadingRef |-> FALSE,
   isTogglingPlaybackRef |-> FALSE,
   waitingFor |-> 0 - 1, waitingTotalSeen |-> 0]

\* No generateAudio call is running.
IdleGeneration ==
  [pc |-> "idle", i |-> 0, total |-> 0, totalChunksSeen |-> 0, awaitedBy |-> "none"]

\* playChunk(chunkIndex, audioChunksRef.current) in a closure that saw
\* totalChunks = totalChunksSeen.
playChunk(s, chunkIndex, totalChunksSeen) ==
  IF chunkIndex >= Len(s.audioChunksRef)
  THEN IF s.isLoadingChunksRef /\ chunkIndex < totalChunksSeen
       THEN [s EXCEPT !.waitingFor = chunkIndex, !.waitingTotalSeen = totalChunksSeen]
       ELSE [s EXCEPT !.isPlaying = FALSE]
  ELSE [s EXCEPT !.soundRef = [ref |-> TRUE, loaded |-> TRUE,
                               chunkIndex |-> chunkIndex, isPlaying |-> TRUE,
                               totalChunksSeen |-> totalChunksSeen],
                 !.isPlaying = TRUE,
                 !.currentChunkIndex = chunkIndex]

\* soundRef.current.pauseAsync() and the status update that follows.
pauseAsync(s) ==
  [s EXCEPT !.soundRef.isPlaying = FALSE, !.isPlaying = FALSE]

\* soundRef.current.playAsync() and the status update that follows.
playAsync(s) ==
  [s EXCEPT !.soundRef.isPlaying = s.soundRef.loaded, !.isPlaying = s.soundRef.loaded]

\* generateAudio up to the call of getAudioChunkCount.
generateAudio(s) ==
  [s EXCEPT !.showAudioControlModal = FALSE,
            !.audioLoading = TRUE,
            !.shouldStopLoadingRef = FALSE,
            !.soundRef = NoSound,
            !.audioChunksRef = << >>,
            !.currentChunkIndex = 0,
            !.totalChunks = 0]

\* generateAudio returned to the handler that awaits it: the finally block
\* of handleAudioButtonPress.
ReturnToAwaiter(s, g) ==
  IF g.awaitedBy = "handleAudioButtonPress"
  THEN [s EXCEPT !.isTogglingPlaybackRef = FALSE]
  ELSE s

\* generateAudio: the test of the for loop at index i, and what follows the
\* loop. The result is the pair of the screen and the generation.
LoopFrom(s, g, i) ==
  IF i < g.total /\ ~s.shouldStopLoadingRef
  THEN << s, [g EXCEPT !.pc = "generateAudioChunk", !.i = i] >>
  ELSE << ReturnToAwaiter([s EXCEPT !.isLoadingChunksRef = FALSE,
                                    !.articleHasAudio = TRUE,
                                    !.audioLoading = FALSE], g),
          IdleGeneration >>

\* generateAudio: the catch and finally blocks.
LoopFailed(s, g) ==
  << ReturnToAwaiter([s EXCEPT !.isLoadingChunksRef = FALSE,
                               !.audioLoading = FALSE], g),
     IdleGeneration >>

\* generateAudio: the body of the for loop once generateAudioChunk returned.
ChunkStored(s, g) ==
  LET s1 == [s EXCEPT !.audioChunksRef = Append(@, g.i)]
      s2 == IF g.i = 0
            THEN playChunk([s1 EXCEPT !.audioLoading = FALSE,
                                      !.showPlayerControls = TRUE,
                                      !.isPlaying = TRUE],
                           0, g.totalChunksSeen)
            ELSE s1
  IN LoopFrom(s2, g, g.i + 1)

\* handleAudioButtonPress: the screen, the generation and what the press did.
handleAudioButtonPress(s, g) ==
  IF s.isTogglingPlaybackRef THEN << s, g, "ignored" >>
  ELSE IF s.soundRef.ref
       THEN IF s.isPlaying THEN << pauseAsync(s), g, "pauseAsync" >>
            ELSE << playAsync(s), g, "playAsync" >>
  ELSE IF Len(s.audioChunksRef) > 0
       THEN << playChunk(s, s.currentChunkIndex, s.totalChunks), g, "playChunk" >>
  ELSE IF s.articleHasAudio
       THEN << [generateAudio(s) EXCEPT !.isTogglingPlaybackRef = TRUE],
               [pc |-> "getAudioChunkCount", i |-> 0, total |-> 0,
                totalChunksSeen |-> s.totalChunks,
                awaitedBy |-> "handleAudioButtonPress"],
               "generateAudio" >>
  ELSE << [s EXCEPT !.showAudioControlModal = TRUE], g, "showAudioControlModal" >>

\* handleTogglePlayback (ElevenLabs mode). Without a sound it calls
\* handleAudioButtonPress while holding isTogglingPlaybackRef itself.
handleTogglePlayback(s, g) ==
  IF s.isTogglingPlaybackRef THEN << s, g, "ignored" >>
  ELSE IF ~s.soundRef.ref
       THEN LET inner == handleAudioButtonPress(
                           [s EXCEPT !.isTogglingPlaybackRef = TRUE], g)
            IN << [inner[1] EXCEPT !.isTogglingPlaybackRef = FALSE],
                  inner[2], inner[3] >>
  ELSE IF s.isPlaying THEN << pauseAsync(s), g, "pauseAsync" >>
  ELSE << playAsync(s), g, "playAsync" >>

\* ----------------------------------------------------------- screen actions
\* The audio button of the header (disabled while audioLoading).
ScreenPressAudioButton ==
  /\ screen.mounted /\ ~screen.audioLoading
  /\ LET after == handleAudioButtonPress(screen, generation)
     IN /\ screen' = after[1]
        /\ generation' = after[2]
        /\ pressLog' = [handler |-> "handleAudioButtonPress", outcome |-> after[3]]
  /\ UNCHANGED << restVars, playerVars, backendVars, sessionVars >>

\* The play button of the player controls.
ScreenPressPlayButton ==
  /\ screen.mounted /\ screen.showPlayerControls
  /\ LET after == handleTogglePlayback(screen, generation)
     IN /\ screen' = after[1]
        /\ generation' = after[2]
        /\ pressLog' = [handler |-> "handleTogglePlayback", outcome |-> after[3]]
  /\ UNCHANGED << restVars, playerVars, backendVars, sessionVars >>

\* The transcribe button of the audio control modal (disabled while
\* audioLoading): generateAudio(), awaited by nobody.
ScreenPressTranscribe ==
  /\ screen.mounted /\ screen.showAudioControlModal /\ ~screen.audioLoading
  /\ generation.pc = "idle"
  /\ screen' = generateAudio(screen)
  /\ generation' = [pc |-> "getAudioChunkCount", i |-> 0, total |-> 0,
                    totalChunksSeen |-> screen.totalChunks, awaitedBy |-> "none"]
  /\ UNCHANGED << restVars, pressLog, playerVars, backendVars, sessionVars >>

\* getAudioChunkCount returned: setTotalChunks, isLoadingChunksRef, the loop.
ScreenChunkCountReturns ==
  \E total \in 1 .. MaxChunks :
    /\ generation.pc = "getAudioChunkCount"
    /\ LET after == LoopFrom([screen EXCEPT !.totalChunks = total,
                                            !.isLoadingChunksRef = TRUE],
                             [generation EXCEPT !.total = total], 0)
       IN /\ screen' = after[1]
          /\ generation' = after[2]
    /\ UNCHANGED << restVars, pressLog, playerVars, backendVars, sessionVars >>

ScreenChunkCountFails ==
  /\ generation.pc = "getAudioChunkCount"
  /\ LET after == LoopFailed(screen, generation)
     IN /\ screen' = after[1]
        /\ generation' = after[2]
  /\ UNCHANGED << restVars, pressLog, playerVars, backendVars, sessionVars >>

ScreenChunkReturns ==
  /\ generation.pc = "generateAudioChunk"
  /\ LET after == ChunkStored(screen, generation)
     IN /\ screen' = after[1]
        /\ generation' = after[2]
  /\ UNCHANGED << restVars, pressLog, playerVars, backendVars, sessionVars >>

ScreenChunkFails ==
  /\ generation.pc = "generateAudioChunk"
  /\ LET after == LoopFailed(screen, generation)
     IN /\ screen' = after[1]
        /\ generation' = after[2]
  /\ UNCHANGED << restVars, pressLog, playerVars, backendVars, sessionVars >>

\* The playback status update with didJustFinish of the loaded sound.
ScreenSoundFinishes ==
  /\ screen.soundRef.loaded /\ screen.soundRef.isPlaying
  /\ screen' = playChunk([screen EXCEPT !.soundRef.isPlaying = FALSE,
                                        !.isPlaying = FALSE,
                                        !.currentChunkIndex = screen.soundRef.chunkIndex + 1],
                         screen.soundRef.chunkIndex + 1,
                         screen.soundRef.totalChunksSeen)
  /\ UNCHANGED << restVars, generation, pressLog, playerVars, backendVars, sessionVars >>

\* The 200 ms timer of waitForChunk fires.
ScreenWaitTimer ==
  /\ screen.waitingFor >= 0
  /\ screen' =
       IF screen.waitingFor < Len(screen.audioChunksRef)
       THEN playChunk([screen EXCEPT !.waitingFor = 0 - 1],
                      screen.waitingFor, screen.waitingTotalSeen)
       ELSE IF screen.isLoadingChunksRef THEN screen
       ELSE [screen EXCEPT !.waitingFor = 0 - 1, !.isPlaying = FALSE]
  /\ UNCHANGED << restVars, generation, pressLog, playerVars, backendVars, sessionVars >>

\* The cleanup of the effect: the screen unmounts.
ScreenUnmounts ==
  /\ screen.mounted
  /\ screen' = [screen EXCEPT !.mounted = FALSE,
                              !.shouldStopLoadingRef = TRUE,
                              !.isLoadingChunksRef = FALSE,
                              !.soundRef.loaded = FALSE,
                              !.soundRef.isPlaying = FALSE]
  /\ UNCHANGED << restVars, generation, pressLog, playerVars, backendVars, sessionVars >>

\* playChunk for the next stored chunk after didJustFinish, with
\* Audio.Sound.createAsync throwing: the old sound is unloaded, soundRef is
\* null, the catch block logs the error.
ScreenCreateAsyncFails ==
  /\ screen.soundRef.loaded /\ screen.soundRef.isPlaying
  /\ screen.soundRef.chunkIndex + 1 < Len(screen.audioChunksRef)
  /\ screen' = [screen EXCEPT !.soundRef = NoSound,
                              !.isPlaying = FALSE,
                              !.currentChunkIndex = screen.soundRef.chunkIndex + 1]
  /\ UNCHANGED << restVars, generation, pressLog, playerVars, backendVars, sessionVars >>

InitScreen ==
  /\ screen \in { InitialScreen(hasAudio) : hasAudio \in BOOLEAN }
  /\ generation = IdleGeneration
  /\ pressLog = [handler |-> "none", outcome |-> "none"]

\* The mobile screen before any use.
InitScreenIdle ==
  /\ screen = InitialScreen(FALSE)
  /\ generation = IdleGeneration
  /\ pressLog = [handler |-> "none", outcome |-> "none"]

NextScreen ==
  \/ ScreenPressAudioButton
  \/ ScreenPressPlayButton
  \/ ScreenPressTranscribe
  \/ ScreenChunkCountReturns
  \/ ScreenChunkCountFails
  \/ ScreenChunkReturns
  \/ ScreenChunkFails
  \/ ScreenSoundFinishes
  \/ ScreenWaitTimer
  \/ ScreenUnmounts

\* ------------------------------------- the screen: clearing and starting over
\* handleClearAudio, confirmed, with clearAudio returning. A generateAudio
\* loop that is running keeps running: it reads shouldStopLoadingRef at its
\* next loop test.
handleClearAudio(s) ==
  [s EXCEPT !.shouldStopLoadingRef = TRUE,
            !.isLoadingChunksRef = FALSE,
            !.articleHasAudio = FALSE,
            !.soundRef = NoSound,
            !.audioChunksRef = << >>,
            !.currentChunkIndex = 0,
            !.totalChunks = 0,
            !.showPlayerControls = FALSE,
            !.isPlaying = FALSE]

ScreenClearAudio ==
  /\ screen.mounted /\ screen.showPlayerControls
  /\ screen' = handleClearAudio(screen)
  /\ UNCHANGED << restVars, generation, pressLog, playerVars, backendVars, sessionVars >>

\* The transcribe button of the audio control modal while the chunk request
\* of an earlier generateAudio call is still in flight: a second call of
\* generateAudio, awaited by nobody.
ScreenTranscribeAgain ==
  /\ screen.mounted /\ screen.showAudioControlModal /\ ~screen.audioLoading
  /\ generation.pc = "generateAudioChunk"
  /\ staleGeneration.pc = "idle"
  /\ screen' = generateAudio(screen)
  /\ staleGeneration' = generation
  /\ generation' = [pc |-> "getAudioChunkCount", i |-> 0, total |-> 0,
                    totalChunksSeen |-> screen.totalChunks, awaitedBy |-> "none"]
  /\ UNCHANGED << faultVars, articleVars, textVars, mobileVars, listeningVars >>
  /\ UNCHANGED << pressLog, playerVars, backendVars, sessionVars >>

\* generateAudioChunk returns to the earlier call.
ScreenStaleChunkReturns ==
  /\ staleGeneration.pc = "generateAudioChunk"
  /\ LET after == ChunkStored(screen, staleGeneration)
     IN /\ screen' = after[1]
        /\ staleGeneration' = after[2]
  /\ UNCHANGED << faultVars, articleVars, textVars, mobileVars, listeningVars >>
  /\ UNCHANGED << generation, pressLog, playerVars, backendVars, sessionVars >>

ScreenStaleChunkFails ==
  /\ staleGeneration.pc = "generateAudioChunk"
  /\ LET after == LoopFailed(screen, staleGeneration)
     IN /\ screen' = after[1]
        /\ staleGeneration' = after[2]
  /\ UNCHANGED << faultVars, articleVars, textVars, mobileVars, listeningVars >>
  /\ UNCHANGED << generation, pressLog, playerVars, backendVars, sessionVars >>

InitSuperseded == staleGeneration = IdleGeneration

\* The screen with audio that is cleared and generated again.
NextScreenSessions ==
  \/ ScreenPressAudioButton
  \/ ScreenPressTranscribe
  \/ ScreenChunkCountReturns
  \/ ScreenChunkReturns
  \/ ScreenUnmounts
  \/ ScreenClearAudio
  \/ ScreenTranscribeAgain
  \/ ScreenStaleChunkReturns
  \/ ScreenStaleChunkFails

\* The screen with a sound that can fail to load.
NextScreenLoading ==
  \/ NextScreen
  \/ ScreenCreateAsyncFails

\* ================================== AudioPlayerService: engine failures
\* Failures the service prints in one session.
MaxFailures == 1

\* @Published var error: String? before anything failed.
NoError == "nil"

\* What the service printed about failed chunks: how many messages, and the
\* last one ("Failed to decode chunk", "Failed to process chunk", "Failed to
\* load chunk") with the chunk index it names.
NoFailure == [count |-> 0, kind |-> "none", chunk |-> 0 - 1]

Printed(kind, chunk) ==
  [count |-> failureLog.count + 1, kind |-> kind, chunk |-> chunk]

\* loadAudio(base64Data:timings:); the pair of the fields and of error.
loadAudio(s, timings, dur, decodes, loads) ==
  IF ~decodes THEN << s, "Failed to decode audio data" >>
  ELSE LET s1 == [s EXCEPT !.chunks = << >>,
                           !.allWordTimings = timings,
                           !.chunkStartTimes = << 0 >>,
                           !.chunksLoaded = 1,
                           !.totalChunks = 1]
       IN IF ~loads THEN << s1, "Failed to load audio" >>
          ELSE << [s1 EXCEPT !.player = NewPlayer(AudioChunk(0, timings, dur), 10),
                            !.duration = dur,
                            !.currentTime = 0,
                            !.currentWordIndex = 0 - 1,
                            !.currentChunkIndex = 0,
                            !.chunks = << AudioChunk(0, timings, dur) >>],
                  error >>

\* loadChunkIntoPlayer when AVAudioPlayer(data:) throws: the handle in use
\* has been stopped, nothing is assigned, the catch block prints.
loadChunkIntoPlayerCatch(s, chunkIndex) ==
  IF ~(chunkIndex < Len(s.chunks)) THEN s ELSE EngineHalt(s)

\* advanceToNextChunk with the load throwing: player?.play() follows the
\* call of loadChunkIntoPlayer.
advanceToNextChunkCatch(s) ==
  LET nextIndex == s.currentChunkIndex + 1
  IN IF nextIndex < Len(s.chunks)
     THEN EnginePlay(loadChunkIntoPlayerCatch(s, nextIndex))
     ELSE advanceToNextChunk(s)

\* updateTime with the load of the next chunk throwing.
updateTimeCatch(s) ==
  IF ~s.player.loaded THEN s
  ELSE LET chunkStartTime ==
             IF s.currentChunkIndex < Len(s.chunkStartTimes)
             THEN s.chunkStartTimes[s.currentChunkIndex + 1] ELSE 0
           s1 == [s EXCEPT !.currentTime = chunkStartTime + s.player.currentTime]
           s2 == IF ChunkFinished(s1) THEN advanceToNextChunkCatch(s1) ELSE s1
       IN updateCurrentWord(s2)

\* seek(to:) with the load of the target chunk throwing.
seekCatch(s, time) ==
  LET targetTime == Max(0, Min(time, s.duration))
      targetChunkIndex == SeekTargetChunk(s, targetTime)
      s1 == IF targetChunkIndex # s.currentChunkIndex /\ targetChunkIndex < Len(s.chunks)
            THEN loadChunkIntoPlayerCatch(s, targetChunkIndex)
            ELSE s
      s2 == IF s1.player.loaded /\ s1.currentChunkIndex < Len(s1.chunkStartTimes)
            THEN LET chunkStartTime == s1.chunkStartTimes[s1.currentChunkIndex + 1]
                     timeInChunk == targetTime - chunkStartTime
                 IN [s1 EXCEPT !.player.currentTime =
                       Max(0, Min(timeInChunk, s1.player.duration))]
            ELSE s1
  IN updateCurrentWord([s2 EXCEPT !.currentTime = targetTime])

\* addChunk with the load of the arrived chunk (on resuming) throwing.
addChunkCatch(s, index, timings, dur) ==
  LET chunk == AudioChunk(index, timings, dur)
      s1 == recalculateTimings([s EXCEPT !.chunks = SortedInsert(s.chunks, chunk)])
      s2 == [s1 EXCEPT !.chunksLoaded = Len(s1.chunks)]
      s3 == IF index = 0 /\ ~s2.player.loaded
            THEN [s2 EXCEPT !.player = NewPlayer(chunk, s2.playbackRate),
                            !.currentChunkIndex = 0]
            ELSE s2
      s4 == IF s3.isWaitingForNextChunk /\ index = s3.currentChunkIndex + 1
            THEN advanceToNextChunkCatch([s3 EXCEPT !.isWaitingForNextChunk = FALSE])
            ELSE s3
  IN IF s4.chunksLoaded = s4.totalChunks
     THEN [s4 EXCEPT !.isLoadingChunks = FALSE]
     ELSE s4

\* addChunk of chunk 0 with player = try AVAudioPlayer(data:) throwing: the
\* rest of the do block is skipped.
addChunkFirstLoadCatch(s, index, timings, dur) ==
  LET chunk == AudioChunk(index, timings, dur)
      s1 == recalculateTimings([s EXCEPT !.chunks = SortedInsert(s.chunks, chunk)])
  IN [s1 EXCEPT !.chunksLoaded = Len(s1.chunks)]

\* ---------------------------------------------- engine failures: actions
\* loadAudio is the path for an article with one audio: it is called on a
\* service that holds no chunks.
LoadAudio ==
  \E decodes \in BOOLEAN, loads \in BOOLEAN :
    LET after == loadAudio(PlayerState, LocalTimings(0), DecodedDuration(0),
                           decodes, loads)
    IN /\ chunks = << >> /\ totalChunks = 0 /\ ~player.loaded
       /\ SetPlayerState(after[1])
       /\ error' = after[2]
       /\ UNCHANGED << failureLog, articleVars, textVars >>
       /\ UNCHANGED << backendVars, sessionVars, screenVars, mobileVars, listeningVars,
                  supersededVars >>

\* addChunk: Data(base64Encoded:) or the temporary AVAudioPlayer fails.
AddChunkDecodeFails ==
  \E index \in FreshIndices :
    /\ failureLog.count < MaxFailures
    /\ SetPlayerState(addChunk(PlayerState, index, LocalTimings(index),
                               DecodedDuration(index), FALSE))
    /\ failureLog' = Printed("decode", index)
    /\ UNCHANGED << error, articleVars, textVars >>
    /\ UNCHANGED << backendVars, sessionVars, screenVars, mobileVars, listeningVars,
                  supersededVars >>

\* addChunk(0): the chunk decoded, loading it into the engine fails.
AddChunkFirstLoadFails ==
  /\ failureLog.count < MaxFailures
  /\ 0 \in FreshIndices /\ ~player.loaded
  /\ SetPlayerState(addChunkFirstLoadCatch(PlayerState, 0, LocalTimings(0),
                                           DecodedDuration(0)))
  /\ failureLog' = Printed("process", 0)
  /\ UNCHANGED << error, articleVars, textVars >>
  /\ UNCHANGED << backendVars, sessionVars, screenVars, mobileVars, listeningVars,
                  supersededVars >>

\* addChunk delivers the chunk waited for; loading it fails.
AddChunkLoadFails ==
  \E index \in FreshIndices :
    /\ failureLog.count < MaxFailures
    /\ isWaitingForNextChunk /\ index = currentChunkIndex + 1
    /\ currentChunkIndex < Len(chunks)
    /\ SetPlayerState(addChunkCatch(PlayerState, index, LocalTimings(index),
                                    DecodedDuration(index)))
    /\ failureLog' = Printed("load", chunks'[currentChunkIndex + 2].index)
    /\ UNCHANGED << error, articleVars, textVars >>
    /\ UNCHANGED << backendVars, sessionVars, screenVars, mobileVars, listeningVars,
                  supersededVars >>

\* The timer tick finds the chunk finished; loading the next one fails.
UpdateTimeLoadFails ==
  /\ failureLog.count < MaxFailures
  /\ updateTimer
  /\ ChunkFinished(PlayerState)
  /\ currentChunkIndex + 1 < Len(chunks)
  /\ SetPlayerState(updateTimeCatch(PlayerState))
  /\ failureLog' = Printed("load", chunks[currentChunkIndex + 2].index)
  /\ UNCHANGED << error, articleVars, textVars >>
  /\ UNCHANGED << backendVars, sessionVars, screenVars, mobileVars, listeningVars,
                  supersededVars >>

\* seek(to:) into another chunk; loading that chunk fails.
SeekLoadFails ==
  \E t \in SeekTargetsMs :
    LET target == SeekTargetChunk(PlayerState, Max(0, Min(Ticks(t), duration)))
    IN /\ failureLog.count < MaxFailures
       /\ target # currentChunkIndex /\ target < Len(chunks)
       /\ SetPlayerState(seekCatch(PlayerState, Ticks(t)))
       /\ failureLog' = Printed("load", chunks[target + 1].index)
       /\ UNCHANGED << error, articleVars, textVars >>
       /\ UNCHANGED << backendVars, sessionVars, screenVars, mobileVars, listeningVars,
                  supersededVars >>

\* ============================================ backend: the store failing
\* The message of the error a failing store ends a call with.
CacheUnavailable == "cache_unavailable"

\* generateAudioChunk with the read of the stored chunk throwing: the
\* handler has no catch, the error goes to callbackHandler.
generateAudioChunkReadThrows(req, voiceId, chunkIndex) ==
  Reject([req EXCEPT !.voiceId = voiceId, !.chunkIndex = chunkIndex],
         CacheUnavailable)

\* generateAudioChunk with await articleService.saveAudioChunk rejecting:
\* the return statement after it is not reached.
saveAudioChunkThrows(req) == Reject(req, CacheUnavailable)

ReceiveChunkRequestStoreFails ==
  \E r \in RequestIds, voiceId \in Voices, chunkIndex \in RequestedIndices :
    /\ NextToReceive(r)
    /\ requests' = [requests EXCEPT ![r] =
         generateAudioChunkReadThrows(requests[r], voiceId, chunkIndex)]
    /\ UNCHANGED audioChunkCache
    /\ UNCHANGED << restVars, playerVars, sessionVars, screenVars >>

SaveAudioChunkStoreFails ==
  \E r \in RequestIds :
    /\ requests[r].pc = "saveAudioChunk"
    /\ requests' = [requests EXCEPT ![r] = saveAudioChunkThrows(requests[r])]
    /\ UNCHANGED audioChunkCache
    /\ UNCHANGED << restVars, playerVars, sessionVars, screenVars >>

NextBackendFaults ==
  \/ ReceiveChunkRequest
  \/ ReceiveChunkRequestStoreFails
  \/ ConvertWithTimestampsReturns
  \/ ConvertWithTimestampsFails
  \/ ConvertChunkToAudioReturns
  \/ ConvertChunkToAudioFails
  \/ SaveAudioChunk
  \/ SaveAudioChunkStoreFails

\* ================================== backend: the column of the article row
\* Voice ids the chunks of one article are requested with.
ArticleVoices == { "voiceA", "voiceB" }

\* Article.audioChunksData: null.
NullChunksData == [isNull |-> TRUE, voiceId |-> "", chunks |-> << >>]

\* The audio the provider returns for a chunk read by a voice.
VoicedBuffer(voiceId, chunkIndex) == Buffer(chunkIndex, << voiceId, 1 >>)

\* The chunk of the column's JSON for (voiceId, chunkIndex): the object has
\* one voiceId and its chunks by index.
cachedChunkOf(data, voiceId, chunkIndex) ==
  IF ~data.isNull /\ data.voiceId = voiceId /\ chunkIndex \in DOMAIN data.chunks
  THEN [present |-> TRUE,
        audioData |-> data.chunks[chunkIndex].audioData,
        wordTimings |-> data.chunks[chunkIndex].wordTimings]
  ELSE NoChunk

\* The column's JSON after the chunk has been saved for voiceId: the chunks
\* of the object are those of its one voiceId.
withAudioChunk(data, voiceId, chunkIndex, audioBase64, wordTimings) ==
  LET kept == IF ~data.isNull /\ data.voiceId = voiceId
              THEN data.chunks ELSE << >>
      entry == [audioData |-> audioBase64, wordTimings |-> wordTimings]
  IN [isNull |-> FALSE, voiceId |-> voiceId,
      chunks |-> [i \in (DOMAIN kept) \cup {chunkIndex} |->
                    IF i = chunkIndex THEN entry ELSE kept[i]]]

\* No chunk request answered yet.
NoChunkResponse ==
  [voiceId |-> "", chunkIndex |-> 0 - 1, status |-> 0,
   audioData |-> toBase64(NoBuffer), cached |-> FALSE]

\* generateAudioChunk against the column, the provider answering or failing.
generateAudioChunkOnRow(data, voiceId, chunkIndex, synthesized) ==
  LET cachedChunk == cachedChunkOf(data, voiceId, chunkIndex)
      audioBase64 == toBase64(VoicedBuffer(voiceId, chunkIndex))
  IN IF cachedChunk.present
     THEN << data,
             [voiceId |-> voiceId, chunkIndex |-> chunkIndex, status |-> 200,
              audioData |-> cachedChunk.audioData, cached |-> TRUE] >>
     ELSE IF chunkIndex < 0 \/ chunkIndex >= getChunkCount \/ ~synthesized
     THEN << data,
             [voiceId |-> voiceId, chunkIndex |-> chunkIndex, status |-> 500,
              audioData |-> toBase64(NoBuffer), cached |-> FALSE] >>
     ELSE << withAudioChunk(data, voiceId, chunkIndex, audioBase64,
                            LocalTimings(chunkIndex)),
             [voiceId |-> voiceId, chunkIndex |-> chunkIndex, status |-> 200,
              audioData |-> audioBase64, cached |-> FALSE] >>

\* One chunk request from its receipt to its answer.
ChunkRequestOnRow ==
  \E voiceId \in ArticleVoices, chunkIndex \in RequestedIndices,
     synthesized \in BOOLEAN :
    LET after == generateAudioChunkOnRow(audioChunksData, voiceId, chunkIndex,
                                         synthesized)
    IN /\ audioChunksData' = after[1]
       /\ chunkResponse' = after[2]
       /\ UNCHANGED << faultVars, textVars >>
       /\ UNCHANGED << playerVars, backendVars, sessionVars, screenVars, mobileVars, listeningVars,
                  supersededVars >>

\* The row of an article no chunk has been generated for.
InitArticle ==
  /\ audioChunksData = NullChunksData
  /\ chunkResponse = NoChunkResponse

NextArticle == ChunkRequestOnRow

\* ===================================================== the text splitter
\* A text is the sequence of its characters. The maximum chunk size the
\* splitter is run with (MAX_CHUNK_CHARS of the three providers is 4500, 1000
\* and 500), and the number of pieces an input text is put together from.
MaxChunkChars == 5

MaxPieces == 5

\* The pieces of the input texts: letters, a full stop, the two kinds of
\* whitespace.
Pieces == { << "a" >>, << "a", "a", "a" >>, << "." >>, << " " >>, << "\n" >> }

RECURSIVE TextsOf(_)
TextsOf(n) ==
  IF n = 0 THEN { << >> }
  ELSE LET shorter == TextsOf(n - 1)
       IN shorter \cup { t \o p : t \in shorter, p \in Pieces }

Texts == TextsOf(MaxPieces)

\* The factor of MAX_CHUNK_CHARS a split point has to lie past, in tenths:
\* 0.5 in the backend and the Edge provider, 0.3 in the on-device provider.
Thresholds == { 5, 3 }

\* Whitespace of the texts (what trim and \s match).
IsWhitespace(c) == c \in { " ", "\n" }

\* The characters of s at the positions in keep, in order.
RECURSIVE Pick(_, _, _)
Pick(s, i, keep) ==
  IF i > Len(s) THEN << >>
  ELSE (IF i \in keep THEN << s[i] >> ELSE << >>) \o Pick(s, i + 1, keep)

\* String.prototype.trim
trim(s) ==
  LET solid == { i \in 1 .. Len(s) : ~IsWhitespace(s[i]) }
  IN IF solid = {} THEN << >>
     ELSE SubSeq(s, CHOOSE i \in solid : \A j \in solid : i <= j,
                    CHOOSE i \in solid : \A j \in solid : i >= j)

\* s.substring(from, to) and s.substring(from), positions counted from 0.
substring(s, from, to) == SubSeq(s, Min(from, Len(s)) + 1, Min(to, Len(s)))

substringFrom(s, from) == SubSeq(s, Min(from, Len(s)) + 1, Len(s))

\* s.lastIndexOf(pattern), counted from 0; -1 when there is none.
lastIndexOf(s, pattern) ==
  LET at == { i \in 0 .. (Len(s) - Len(pattern)) :
                SubSeq(s, i + 1, i + Len(pattern)) = pattern }
  IN IF at = {} THEN 0 - 1 ELSE CHOOSE i \in at : \A j \in at : i >= j

\* cleaned.replace(/\n{3,}/g, '\n\n')
collapseNewlines(s) ==
  Pick(s, 1, { i \in 1 .. Len(s) :
                 ~(i >= 3 /\ s[i] = "\n" /\ s[i - 1] = "\n" /\ s[i - 2] = "\n") })

\* cleaned.replace(/  +/g, ' ')
collapseSpaces(s) ==
  Pick(s, 1, { i \in 1 .. Len(s) : ~(i >= 2 /\ s[i] = " " /\ s[i - 1] = " ") })

\* A prepareTextForSpeech without the final trim.
prepareTextForSpeech_untrimmed(text) == collapseSpaces(collapseNewlines(text))

\* prepareTextForSpeech on a text without markup, links or URLs: the
\* whitespace clean-up.
prepareTextForSpeech(text) == trim(collapseSpaces(collapseNewlines(text)))

sentenceEnders ==
  << << ".", " " >>, << "!", " " >>, << "?", " " >>,
     << ".", "\n" >>, << "!", "\n" >>, << "?", "\n" >> >>

\* splitIntoChunks: the loop over sentenceEnders, from the k-th on.
RECURSIVE BestSplitFrom(_, _, _, _, _)
BestSplitFrom(searchText, k, bestSplit, maxChunkChars, thresholdTenths) ==
  IF k > Len(sentenceEnders) THEN bestSplit
  ELSE LET ender == sentenceEnders[k]
           lastIndex == lastIndexOf(searchText, ender)
       IN BestSplitFrom(searchText, k + 1,
            IF lastIndex > bestSplit /\ lastIndex * 10 > maxChunkChars * thresholdTenths
            THEN lastIndex + Len(ender) - 1
            ELSE bestSplit,
            maxChunkChars, thresholdTenths)

\* A split point searched in the whole remaining text, not in its window.
SplitPoint_unwindowed(remaining, maxChunkChars, thresholdTenths) ==
  LET lastNewline == lastIndexOf(remaining, << "\n" >>)
      lastSpace == lastIndexOf(remaining, << " " >>)
  IN IF lastNewline * 10 > maxChunkChars * thresholdTenths THEN lastNewline + 1
     ELSE IF lastSpace * 10 > maxChunkChars * thresholdTenths THEN lastSpace + 1
     ELSE maxChunkChars

\* splitIntoChunks: the split point of one round of the while loop.
SplitPoint(remaining, maxChunkChars, thresholdTenths) ==
  LET searchText == substring(remaining, 0, maxChunkChars)
      bestSplit == BestSplitFrom(searchText, 1, 0 - 1, maxChunkChars, thresholdTenths)
      lastNewline == lastIndexOf(searchText, << "\n" >>)
      lastSpace == lastIndexOf(searchText, << " " >>)
  IN IF bestSplit > 0 THEN bestSplit + 1
     ELSE IF lastNewline * 10 > maxChunkChars * thresholdTenths THEN lastNewline + 1
     ELSE IF lastSpace * 10 > maxChunkChars * thresholdTenths THEN lastSpace + 1
     ELSE maxChunkChars

\* splitIntoChunks: the while loop.
RECURSIVE SplitLoop(_, _, _, _)
SplitLoop(remaining, pushed, maxChunkChars, thresholdTenths) ==
  IF Len(remaining) = 0 THEN pushed
  ELSE IF Len(remaining) <= maxChunkChars THEN Append(pushed, remaining)
  ELSE LET splitPoint == SplitPoint(remaining, maxChunkChars, thresholdTenths)
       IN SplitLoop(trim(substringFrom(remaining, splitPoint)),
                    Append(pushed, trim(substring(remaining, 0, splitPoint))),
                    maxChunkChars, thresholdTenths)

splitIntoChunks(text, maxChunkChars, thresholdTenths) ==
  SelectSeq(SplitLoop(text, << >>, maxChunkChars, thresholdTenths),
            LAMBDA chunk : Len(chunk) > 0)

\* getChunkCount(text)
getChunkCountOf(text, maxChunkChars, thresholdTenths) ==
  Len(splitIntoChunks(prepareTextForSpeech(text), maxChunkChars, thresholdTenths))

\* generateChunk up to chunkText: "invalid" stands for
\* throw new Error(`Invalid chunk index ...`).
chunkTextOf(text, chunkIndex, maxChunkChars, thresholdTenths) ==
  LET chunksOfText ==
        splitIntoChunks(prepareTextForSpeech(text), maxChunkChars, thresholdTenths)
      total == Len(chunksOfText)
  IN IF chunkIndex < 0 \/ chunkIndex >= total
     THEN [invalid |-> TRUE, chunkText |-> << >>]
     ELSE [invalid |-> FALSE, chunkText |-> chunksOfText[chunkIndex + 1]]

\* A splitter that has been given its text and has not been called.
SplitterWith(text, thresholdTenths) ==
  [text |-> text, thresholdTenths |-> thresholdTenths, call |-> "none",
   chunks |-> << >>, chunkCount |-> 0 - 1, chunkIndex |-> 0 - 1,
   invalid |-> FALSE, chunkText |-> << >>]

\* ------------------------------------------------------ splitter actions
\* splitIntoChunks applied to the text as it is.
SplitIntoChunks ==
  /\ splitter.call = "none"
  /\ splitter' = [splitter EXCEPT
       !.call = "splitIntoChunks",
       !.chunks = splitIntoChunks(splitter.text, MaxChunkChars,
                                  splitter.thresholdTenths)]
  /\ UNCHANGED << extractor, faultVars, articleVars >>
  /\ UNCHANGED << playerVars, backendVars, sessionVars, screenVars, mobileVars, listeningVars,
                  supersededVars >>

GetChunkCount ==
  /\ splitter.call = "none"
  /\ splitter' = [splitter EXCEPT
       !.call = "getChunkCount",
       !.chunkCount = getChunkCountOf(splitter.text, MaxChunkChars,
                                      splitter.thresholdTenths)]
  /\ UNCHANGED << extractor, faultVars, articleVars >>
  /\ UNCHANGED << playerVars, backendVars, sessionVars, screenVars, mobileVars, listeningVars,
                  supersededVars >>

GenerateChunk ==
  \E chunkIndex \in 0 .. 1 :
    LET found == chunkTextOf(splitter.text, chunkIndex, MaxChunkChars,
                             splitter.thresholdTenths)
    IN /\ splitter.call = "none"
       /\ splitter' = [splitter EXCEPT
            !.call = "generateChunk",
            !.chunkIndex = chunkIndex,
            !.invalid = found.invalid,
            !.chunkText = found.chunkText]
       /\ UNCHANGED << extractor, faultVars, articleVars >>
       /\ UNCHANGED << playerVars, backendVars, sessionVars, screenVars, mobileVars, listeningVars,
                  supersededVars >>

IdleSplitter == SplitterWith(<< >>, 5)

InitSplitter ==
  splitter \in { SplitterWith(text, thresholdTenths) :
                   text \in Texts, thresholdTenths \in Thresholds }

NextSplitter ==
  \/ SplitIntoChunks
  \/ GetChunkCount
  \/ GenerateChunk

\* =============================================== the word-timing extractor
\* Characters of a provider alignment, the latest character time (in ticks),
\* and the pieces a chunk text given to the estimators is put together from.
MaxAlignedChars == 3

MaxTimeTicks == 3

MaxWordPieces == 3

\* generateEstimatedWordTimings (Edge): end = ... - 10
EdgeEndGapMs == 10

\* generateEstimatedWordTimings (on-device): avgWordDurationMs, end = ... - 50
avgWordDurationMs == 300

AVSpeechEndGapMs == 50

\* Math.round(t * 1000) of a time of t ticks.
RoundMs(t) == (2 * t + SubMs) \div (2 * SubMs)

\* Math.round(p / q) for q > 0.
RoundRatio(p, q) == (2 * p + q) \div (2 * q)

AlignedChars == { "a", " ", "\n" }

NonDecreasing(times) ==
  \A i \in 1 .. (Len(times) - 1) : times[i] <= times[i + 1]

\* response.alignment: the characters with their start and end times, both
\* non-decreasing, no character ending before it starts.
Alignments ==
  UNION { { [characters |-> c, characterStartTimesSeconds |-> s,
             characterEndTimesSeconds |-> e] :
              c \in [1 .. n -> AlignedChars],
              s \in { x \in [1 .. n -> 0 .. MaxTimeTicks] : NonDecreasing(x) },
              e \in { x \in [1 .. n -> 0 .. MaxTimeTicks] : NonDecreasing(x) } }
          : n \in 0 .. MaxAlignedChars }

WellTimed(alignment) ==
  \A i \in 1 .. Len(alignment.characters) :
    alignment.characterStartTimesSeconds[i] <= alignment.characterEndTimesSeconds[i]

\* Estimated audio durations (Math.round(byteLength / 16)), in ms.
EstimatedDurationsMs == { 0, 12, 45, 1000 }

\* convertWithTimestamps: the loop over the characters from position i
\* (counted from 0) and the flush of the last word.
RECURSIVE WordTimingsFrom(_, _, _, _, _)
WordTimingsFrom(alignment, i, currentWord, wordStart, wordTimings) ==
  LET characters == alignment.characters
      ends == alignment.characterEndTimesSeconds
  IN IF i >= Len(characters)
     THEN IF trim(currentWord) # << >>
          THEN Append(wordTimings,
                      [word |-> trim(currentWord),
                       start |-> RoundMs(wordStart),
                       end |-> RoundMs(ends[Len(characters)])])
          ELSE wordTimings
     ELSE LET char == characters[i + 1]
              startTime == alignment.characterStartTimesSeconds[i + 1]
              endTime == ends[i + 1]
          IN IF char = " " \/ char = "\n"
             THEN WordTimingsFrom(alignment, i + 1, << >>, endTime,
                    IF trim(currentWord) # << >>
                    THEN Append(wordTimings,
                                [word |-> trim(currentWord),
                                 start |-> RoundMs(wordStart),
                                 end |-> RoundMs(ends[i])])
                    ELSE wordTimings)
             ELSE WordTimingsFrom(alignment, i + 1, Append(currentWord, char),
                    IF currentWord = << >> THEN startTime ELSE wordStart,
                    wordTimings)

\* convertWithTimestamps: the word timings of the response's alignment.
convertWithTimestamps(alignment) == WordTimingsFrom(alignment, 0, << >>, 0, << >>)

\* text.split(/\s+/).filter(w => w.length > 0)
RECURSIVE WordsOf(_, _)
WordsOf(text, currentWord) ==
  IF text = << >>
  THEN IF currentWord = << >> THEN << >> ELSE << currentWord >>
  ELSE IF IsWhitespace(Head(text))
       THEN (IF currentWord = << >> THEN << >> ELSE << currentWord >>)
            \o WordsOf(Tail(text), << >>)
       ELSE WordsOf(Tail(text), Append(currentWord, Head(text)))

\* word.replace(/[.,!?;:'"]/g, '')
withoutPunctuation(word) == SelectSeq(word, LAMBDA c : c # ".")

\* EdgeTTSProvider.generateEstimatedWordTimings(text, audioDurationMs)
generateEstimatedWordTimings(text, audioDurationMs) ==
  LET words == WordsOf(text, << >>)
      n == Len(words)
  IN [k \in 1 .. n |->
        [word |-> withoutPunctuation(words[k]),
         start |-> RoundRatio((k - 1) * audioDurationMs, n),
         end |-> RoundRatio(k * audioDurationMs - EdgeEndGapMs * n, n)]]

\* AVSpeechProvider.generateEstimatedWordTimings(text)
generateEstimatedWordTimingsOnDevice(text) ==
  LET words == WordsOf(text, << >>)
  IN [k \in 1 .. Len(words) |->
        [word |-> withoutPunctuation(words[k]),
         start |-> (k - 1) * avgWordDurationMs,
         end |-> k * avgWordDurationMs - AVSpeechEndGapMs]]

NoAlignment ==
  [characters |-> << >>, characterStartTimesSeconds |-> << >>,
   characterEndTimesSeconds |-> << >>]

\* An extractor that has been given an alignment, or a chunk text with the
\* estimated duration of its audio, and has not been called.
ExtractorWith(given, alignment, text, audioDurationMs) ==
  [given |-> given, alignment |-> alignment, text |-> text,
   audioDurationMs |-> audioDurationMs, call |-> "none", wordTimings |-> << >>]

IdleExtractor == ExtractorWith("nothing", NoAlignment, << >>, 0)

\* ----------------------------------------------------- extractor actions
ConvertWithTimestamps ==
  /\ extractor.given = "alignment" /\ extractor.call = "none"
  /\ extractor' = [extractor EXCEPT
       !.call = "convertWithTimestamps",
       !.wordTimings = convertWithTimestamps(extractor.alignment)]
  /\ UNCHANGED << splitter, faultVars, articleVars >>
  /\ UNCHANGED << playerVars, backendVars, sessionVars, screenVars, mobileVars, listeningVars,
                  supersededVars >>

GenerateEstimatedWordTimings ==
  /\ extractor.given = "text" /\ extractor.call = "none"
  /\ extractor' = [extractor EXCEPT
       !.call = "generateEstimatedWordTimings",
       !.wordTimings = generateEstimatedWordTimings(extractor.text,
                                                    extractor.audioDurationMs)]
  /\ UNCHANGED << splitter, faultVars, articleVars >>
  /\ UNCHANGED << playerVars, backendVars, sessionVars, screenVars, mobileVars, listeningVars,
                  supersededVars >>

GenerateEstimatedWordTimingsOnDevice ==
  /\ extractor.given = "text" /\ extractor.call = "none"
  /\ extractor' = [extractor EXCEPT
       !.call = "generateEstimatedWordTimingsOnDevice",
       !.wordTimings = generateEstimatedWordTimingsOnDevice(extractor.text)]
  /\ UNCHANGED << splitter, faultVars, articleVars >>
  /\ UNCHANGED << playerVars, backendVars, sessionVars, screenVars, mobileVars, listeningVars,
                  supersededVars >>

InitExtractor ==
  extractor \in
    { ExtractorWith("alignment", a, << >>, 0) : a \in { x \in Alignments : WellTimed(x) } }
    \cup
    { ExtractorWith("text", NoAlignment, text, audioDurationMs) :
        text \in TextsOf(MaxWordPieces), audioDurationMs \in EstimatedDurationsMs }

NextExtractor ==
  \/ ConvertWithTimestamps
  \/ GenerateEstimatedWordTimings
  \/ GenerateEstimatedWordTimingsOnDevice

\* ===================== ArticleScreen (mobile): the sound of the chunk played
\* const PLAYBACK_SPEEDS = [1.0, 1.2, 1.5, 1.7, 2.0] (tenths)
PLAYBACK_SPEEDS == << 10, 12, 15, 17, 20 >>

SKIP_SECONDS == 15

\* chunkBytes / 16: the duration the screen estimates for stored chunk i (ms).
EstimatedChunkDurationMs(i) == NominalDurationMs(i)

RECURSIVE EstimatedDurationBefore(_)
EstimatedDurationBefore(chunkIndex) ==
  IF chunkIndex <= 0 THEN 0
  ELSE EstimatedDurationBefore(chunkIndex - 1) + EstimatedChunkDurationMs(chunkIndex - 1)

\* soundRef.current = null
NoChunkSound ==
  [ref |-> FALSE, chunkIndex |-> 0 - 1, rate |-> 10, positionMillis |-> 0,
   durationMillis |-> 0, isPlaying |-> FALSE]

\* No playChunk call is between two of its awaits.
NoPlayChunk == [pc |-> "idle", chunkIndex |-> 0 - 1, currentSpeed |-> 10]

\* The playback state of the screen after the first render: the speed state
\* and its ref, the stored chunks (audioChunksRef, by how many), the sound,
\* the running playChunk call, and the last position the user asked for.
InitialPlayback ==
  [playbackSpeed |-> 10, playbackSpeedRef |-> 10,
   audioChunksRef |-> 0, audioDuration |-> 0, audioPosition |-> 0,
   currentChunkIndex |-> 0, isPlaying |-> FALSE,
   soundRef |-> NoChunkSound, playChunk |-> NoPlayChunk,
   positionAsked |-> 0 - 1]

\* playChunk(chunkIndex, audioChunksRef.current) up to the await of
\* Audio.Sound.createAsync, for a chunk that is stored or that is past the
\* last chunk: the old sound is unloaded, playbackSpeedRef.current is read.
playChunkBegins(p, chunkIndex) ==
  IF chunkIndex >= p.audioChunksRef
  THEN [p EXCEPT !.isPlaying = FALSE]
  ELSE [p EXCEPT !.soundRef = NoChunkSound,
                 !.playChunk = [pc |-> "createAsync", chunkIndex |-> chunkIndex,
                                currentSpeed |-> p.playbackSpeedRef]]

\* playChunk: createAsync({ shouldPlay: false }) returned the new sound;
\* soundRef.current is set and setRateAsync(currentSpeed, true) is issued
\* (the sound takes the rate calls in the order they are issued).
createAsyncReturned(p) ==
  [p EXCEPT !.soundRef = [ref |-> TRUE, chunkIndex |-> p.playChunk.chunkIndex,
                          rate |-> p.playChunk.currentSpeed, positionMillis |-> 0,
                          durationMillis |->
                            EstimatedChunkDurationMs(p.playChunk.chunkIndex),
                          isPlaying |-> FALSE],
            !.playChunk.pc = "setRateAsync"]

\* playChunk: setRateAsync returned; playAsync, setCurrentChunkIndex, and
\* the status update of the sound that plays.
setRateAsyncReturned(p) ==
  [p EXCEPT !.soundRef.isPlaying = TRUE,
            !.isPlaying = TRUE,
            !.currentChunkIndex = p.playChunk.chunkIndex,
            !.audioPosition = EstimatedDurationBefore(p.playChunk.chunkIndex)
                              + p.soundRef.positionMillis,
            !.playChunk = NoPlayChunk]

\* handleChangeSpeed
handleChangeSpeed(p) ==
  LET found == { k \in 1 .. Len(PLAYBACK_SPEEDS) : PLAYBACK_SPEEDS[k] = p.playbackSpeed }
      currentIndex == IF found = {} THEN 0 - 1
                      ELSE (CHOOSE k \in found : \A j \in found : k <= j) - 1
      nextIndex == (currentIndex + 1) % Len(PLAYBACK_SPEEDS)
      newSpeed == PLAYBACK_SPEEDS[nextIndex + 1]
  IN [p EXCEPT !.playbackSpeed = newSpeed,
               !.playbackSpeedRef = newSpeed,
               !.soundRef.rate = IF p.soundRef.ref THEN newSpeed ELSE @]

\* soundRef.current.setPositionAsync(positionMillis), which the sound clamps
\* to its own length, and the status update that follows.
setPositionAsync(p, positionMillis) ==
  IF ~p.soundRef.ref THEN p
  ELSE LET position == Max(0, Min(positionMillis, p.soundRef.durationMillis))
       IN [p EXCEPT !.soundRef.positionMillis = position,
                    !.audioPosition =
                      EstimatedDurationBefore(p.soundRef.chunkIndex) + position]

handleSeek(p, positionMillis) ==
  [setPositionAsync(p, positionMillis) EXCEPT !.positionAsked = positionMillis]

handleSkipForward(p) ==
  LET newPosition == Min(p.audioPosition + SKIP_SECONDS * 1000, p.audioDuration)
  IN [setPositionAsync(p, newPosition) EXCEPT !.positionAsked = newPosition]

handleSkipBack(p) ==
  LET newPosition == Max(p.audioPosition - SKIP_SECONDS * 1000, 0)
  IN [setPositionAsync(p, newPosition) EXCEPT !.positionAsked = newPosition]

\* ------------------------------------------------- actions on the sound
\* generateAudio stored the next chunk; the first one is played at once.
PlaybackChunkStored ==
  /\ playback.audioChunksRef < MaxChunks
  /\ LET i == playback.audioChunksRef
         p == [playback EXCEPT !.audioChunksRef = i + 1,
                               !.audioDuration = @ + EstimatedChunkDurationMs(i)]
     IN playback' = IF i = 0
                    THEN playChunkBegins([p EXCEPT !.isPlaying = TRUE], 0)
                    ELSE p
  /\ UNCHANGED << playerVars, backendVars, sessionVars, screenVars >>
  /\ UNCHANGED << faultVars, articleVars, textVars, listeningVars, supersededVars >>

PlaybackCreateAsyncReturns ==
  /\ playback.playChunk.pc = "createAsync"
  /\ playback' = createAsyncReturned(playback)
  /\ UNCHANGED << playerVars, backendVars, sessionVars, screenVars >>
  /\ UNCHANGED << faultVars, articleVars, textVars, listeningVars, supersededVars >>

PlaybackSetRateAsyncReturns ==
  /\ playback.playChunk.pc = "setRateAsync"
  /\ playback' = setRateAsyncReturned(playback)
  /\ UNCHANGED << playerVars, backendVars, sessionVars, screenVars >>
  /\ UNCHANGED << faultVars, articleVars, textVars, listeningVars, supersededVars >>

\* The speed button of the player controls.
PlaybackChangeSpeed ==
  /\ playback.audioChunksRef > 0
  /\ playback' = handleChangeSpeed(playback)
  /\ UNCHANGED << playerVars, backendVars, sessionVars, screenVars >>
  /\ UNCHANGED << faultVars, articleVars, textVars, listeningVars, supersededVars >>

\* The sound plays on to the middle of its chunk: a status update.
PlaybackSoundProgress ==
  /\ playback.soundRef.ref /\ playback.soundRef.isPlaying
  /\ playback.soundRef.positionMillis < playback.soundRef.durationMillis \div 2
  /\ playback' = [playback EXCEPT
       !.soundRef.positionMillis = playback.soundRef.durationMillis \div 2,
       !.audioPosition = EstimatedDurationBefore(playback.soundRef.chunkIndex)
                         + playback.soundRef.durationMillis \div 2]
  /\ UNCHANGED << playerVars, backendVars, sessionVars, screenVars >>
  /\ UNCHANGED << faultVars, articleVars, textVars, listeningVars, supersededVars >>

\* The status update with didJustFinish, when the chunk after the one that
\* ended is stored already or the ended one is the last of the article.
PlaybackSoundFinishes ==
  /\ playback.soundRef.ref /\ playback.soundRef.isPlaying
  /\ playback.playChunk.pc = "idle"
  /\ \/ playback.soundRef.chunkIndex + 1 < playback.audioChunksRef
     \/ playback.audioChunksRef = MaxChunks
  /\ LET chunkIndex == playback.soundRef.chunkIndex
         p == [playback EXCEPT
                 !.soundRef.isPlaying = FALSE,
                 !.soundRef.positionMillis = playback.soundRef.durationMillis,
                 !.isPlaying = FALSE,
                 !.audioPosition = EstimatedDurationBefore(chunkIndex)
                                   + playback.soundRef.durationMillis,
                 !.currentChunkIndex = chunkIndex + 1]
     IN playback' = playChunkBegins(p, chunkIndex + 1)
  /\ UNCHANGED << playerVars, backendVars, sessionVars, screenVars >>
  /\ UNCHANGED << faultVars, articleVars, textVars, listeningVars, supersededVars >>

\* Positions the slider is released at (ms): inside chunk 0 before and past
\* the length of chunk 1, inside chunk 1, inside chunk 2.
SliderPositionsMs == { 3000, 9000, 15000, 25000 }

\* onSlidingComplete of the slider, whose range is 0 .. audioDuration.
PlaybackSeek ==
  \E positionMillis \in SliderPositionsMs :
    /\ playback.soundRef.ref
    /\ positionMillis <= playback.audioDuration
    /\ playback' = handleSeek(playback, positionMillis)
    /\ UNCHANGED << playerVars, backendVars, sessionVars, screenVars >>
    /\ UNCHANGED << faultVars, articleVars, textVars, listeningVars, supersededVars >>

PlaybackSkipForward ==
  /\ playback.soundRef.ref
  /\ playback' = handleSkipForward(playback)
  /\ UNCHANGED << playerVars, backendVars, sessionVars, screenVars >>
  /\ UNCHANGED << faultVars, articleVars, textVars, listeningVars, supersededVars >>

PlaybackSkipBack ==
  /\ playback.soundRef.ref
  /\ playback' = handleSkipBack(playback)
  /\ UNCHANGED << playerVars, backendVars, sessionVars, screenVars >>
  /\ UNCHANGED << faultVars, articleVars, textVars, listeningVars, supersededVars >>

InitPlayback == playback = InitialPlayback

NextPlayback ==
  \/ PlaybackChunkStored
  \/ PlaybackCreateAsyncReturns
  \/ PlaybackSetRateAsyncReturns
  \/ PlaybackChangeSpeed
  \/ PlaybackSoundProgress
  \/ PlaybackSoundFinishes
  \/ PlaybackSeek
  \/ PlaybackSkipForward
  \/ PlaybackSkipBack

\* ======================== AudioPlayerService: one listening session
\* The user prepares the player for an article, the chunks of the article
\* arrive, the user presses play once and then leaves the player alone.
NotListening == [started |-> FALSE, heard |-> {}]

ListeningPrepare ==
  \E total \in 1 .. MaxChunks :
    /\ totalChunks = 0 /\ chunks = << >>
    /\ SetPlayerState(prepareForChunkedAudio(PlayerState, total))
    /\ UNCHANGED aroundPlayerVars

\* addChunk with a chunk of the article that is not loaded yet, any order.
ListeningAddChunk ==
  \E index \in ChunkIndices \ { chunks[k].index : k \in 1 .. Len(chunks) } :
    /\ index < totalChunks
    /\ SetPlayerState(addChunk(PlayerState, index, LocalTimings(index),
                               DecodedDuration(index), TRUE))
    /\ UNCHANGED aroundPlayerVars

\* addChunk with the chunks of the article in index order.
ListeningAddChunkInOrder ==
  /\ Len(chunks) < totalChunks
  /\ SetPlayerState(addChunk(PlayerState, Len(chunks), LocalTimings(Len(chunks)),
                             DecodedDuration(Len(chunks)), TRUE))
  /\ UNCHANGED aroundPlayerVars

\* play(), once, when the player can play.
ListeningPlay ==
  /\ ~listening.started
  /\ chunksLoaded > 0 /\ player.loaded
  /\ SetPlayerState(play(PlayerState))
  /\ listening' = [listening EXCEPT !.started = TRUE]
  /\ UNCHANGED << backendVars, sessionVars, screenVars >>
  /\ UNCHANGED << faultVars, articleVars, textVars, mobileVars, supersededVars >>

\* The audio engine reaches the end of the loaded audio and stops: the
\* chunk has been heard.
ListeningEngineFinish ==
  /\ player.loaded /\ player.isPlaying
  /\ player' = [player EXCEPT !.currentTime = player.duration, !.isPlaying = FALSE]
  /\ listening' = [listening EXCEPT !.heard = @ \cup { player.data }]
  /\ UNCHANGED << isPlaying, currentTime, duration, currentWordIndex, playbackRate,
                  chunksLoaded, totalChunks, isLoadingChunks, isWaitingForNextChunk,
                  chunks, allWordTimings, currentChunkIndex, chunkStartTimes,
                  updateTimer >>
  /\ UNCHANGED << backendVars, sessionVars, screenVars >>
  /\ UNCHANGED << faultVars, articleVars, textVars, mobileVars, supersededVars >>

InitListening == listening = NotListening

NextListening ==
  \/ ListeningPrepare
  \/ ListeningAddChunk
  \/ ListeningPlay
  \/ UpdateTime
  \/ EngineProgress
  \/ ListeningEngineFinish

NextListeningInOrder ==
  \/ ListeningPrepare
  \/ ListeningAddChunkInOrder
  \/ ListeningPlay
  \/ UpdateTime
  \/ EngineProgress
  \/ ListeningEngineFinish

\* ------------------------------------------------- state of the parts above
InitFaults ==
  /\ error = NoError
  /\ failureLog = NoFailure

InitTextIdle ==
  /\ splitter = IdleSplitter
  /\ extractor = IdleExtractor

\* The mobile sound, the listening session and the superseded loop at rest.
InitMobileIdle == InitPlayback /\ InitListening /\ InitSuperseded

InitRest == InitFaults /\ InitArticle /\ InitTextIdle /\ InitMobileIdle

vars == << playerVars, backendVars, sessionVars, screenVars, restVars >>

InitPlayer == SetInit(InitialPlayerState)

\* The sequencer runs against an article nothing is stored for.
InitStore ==
  /\ audioChunkCache = EmptyChunkCache
  /\ requests = [r \in RequestIds |-> IdleRequest]

NextPlayer ==
  \/ AddChunk
  \/ PrepareForChunkedAudio
  \/ Play
  \/ Pause
  \/ TogglePlayPause
  \/ Seek
  \/ Stop
  \/ Cleanup
  \/ UpdateTime
  \/ EngineProgress
  \/ EngineFinish

\* The sequencer under every order of calls of its interface.
InitForPlayer == InitPlayer /\ InitStore /\ InitSession /\ InitScreenIdle /\ InitRest

SpecPlayer == InitForPlayer /\ [][NextPlayer]_vars

\* Chunk requests against the backend.
InitForBackend == InitPlayer /\ InitBackend /\ InitSession /\ InitScreenIdle /\ InitRest

SpecBackend == InitForBackend /\ [][NextBackend]_vars

\* The Swift article view: the generation loop feeding the sequencer.
InitForSession == InitPlayer /\ InitStore /\ InitSession /\ InitScreenIdle /\ InitRest

SpecSession == InitForSession /\ [][NextSession]_vars

\* The mobile article screen.
InitForScreen == InitPlayer /\ InitStore /\ InitSession /\ InitScreen /\ InitRest

SpecScreen == InitForScreen /\ [][NextScreen]_vars

\* The sequencer with decoding and engine loads that may fail.
NextPlayerFaults ==
  \/ AddChunk
  \/ PrepareForChunkedAudio
  \/ Play
  \/ Pause
  \/ Seek
  \/ UpdateTime
  \/ EngineProgress
  \/ EngineFinish
  \/ LoadAudio
  \/ AddChunkDecodeFails
  \/ AddChunkFirstLoadFails
  \/ AddChunkLoadFails
  \/ UpdateTimeLoadFails
  \/ SeekLoadFails

SpecPlayerFaults == InitForPlayer /\ [][NextPlayerFaults]_vars

\* An article of one chunk more than MaxChunks, played without seeking.
MaxLongChunks == 4

LongArticleIndices == 0 .. (MaxLongChunks - 1)

\* addChunk called with a chunk of the long article, in any order.
AddChunkOfLongArticle ==
  \E index \in LongArticleIndices \ { chunks[k].index : k \in 1 .. Len(chunks) },
     decodes \in BOOLEAN :
    /\ SetPlayerState(addChunk(PlayerState, index, LocalTimings(index),
                               DecodedDuration(index), decodes))
    /\ UNCHANGED aroundPlayerVars

\* prepareForChunkedAudio for the long article.
PrepareForLongArticle ==
  /\ SetPlayerState(prepareForChunkedAudio(PlayerState, MaxLongChunks))
  /\ UNCHANGED aroundPlayerVars

NextPlayerLong ==
  \/ PrepareForLongArticle
  \/ AddChunkOfLongArticle
  \/ Play
  \/ Pause
  \/ UpdateTime
  \/ EngineProgress
  \/ EngineFinish

SpecPlayerLong == InitForPlayer /\ [][NextPlayerLong]_vars

\* Arrivals the caller does not filter: addChunk with any index, also one
\* that is loaded already, before prepareForChunkedAudio and after cleanup.
\* At most MaxArrivals chunks are kept in the list.
MaxArrivals == 4

AddChunkOfAnyIndex ==
  \E index \in ChunkIndices, decodes \in BOOLEAN :
    /\ Len(chunks) < MaxArrivals
    /\ SetPlayerState(addChunk(PlayerState, index, LocalTimings(index),
                               DecodedDuration(index), decodes))
    /\ UNCHANGED aroundPlayerVars

NextPlayerArrivals ==
  \/ PrepareForChunkedAudio
  \/ AddChunkOfAnyIndex
  \/ Cleanup
  \/ Play
  \/ Pause

SpecPlayerArrivals == InitForPlayer /\ [][NextPlayerArrivals]_vars

\* The speed button of the player: cyclePlaybackRate().
CyclePlaybackRate ==
  /\ SetPlayerState(cyclePlaybackRate(PlayerState))
  /\ UNCHANGED aroundPlayerVars

NextPlayerRate ==
  \/ AddChunk
  \/ Play
  \/ Seek
  \/ UpdateTime
  \/ EngineFinish
  \/ CyclePlaybackRate

\* The sequencer with the speed button, without pause and stop.
SpecPlayerRate == InitForPlayer /\ [][NextPlayerRate]_vars

\* The sound of the mobile screen while chunks are stored and played.
SpecPlayback == InitForPlayer /\ [][NextPlayback]_vars

\* The mobile screen, with sounds that can fail to load.
SpecScreenLoading == InitForScreen /\ [][NextScreenLoading]_vars

\* The mobile screen, with audio that is cleared and generated again.
SpecScreenSessions == InitForScreen /\ [][NextScreenSessions]_vars

\* One listening session: every chunk of the article arrives (in any
\* order), the timer fires while it runs, the engine plays what it is given
\* to the end.
SpecListening ==
  /\ InitForPlayer /\ [][NextListening]_vars
  /\ WF_vars(ListeningPrepare) /\ WF_vars(ListeningAddChunk)
  /\ WF_vars(UpdateTime) /\ WF_vars(ListeningEngineFinish)

\* One listening session with the chunks arriving in index order.
SpecListeningInOrder ==
  /\ InitForPlayer /\ [][NextListeningInOrder]_vars
  /\ WF_vars(ListeningPrepare) /\ WF_vars(ListeningAddChunkInOrder)
  /\ WF_vars(UpdateTime) /\ WF_vars(ListeningEngineFinish)

\* Chunk requests against the backend with a store that may fail.
SpecBackendFaults == InitForBackend /\ [][NextBackendFaults]_vars

\* Chunk requests with several voices against the row of one article.
InitForArticle ==
  InitPlayer /\ InitStore /\ InitSession /\ InitScreenIdle
    /\ InitFaults /\ InitArticle /\ InitTextIdle
    /\ InitMobileIdle

SpecArticle == InitForArticle /\ [][NextArticle]_vars

\* The splitter applied to the input texts.
InitForSplitter ==
  InitPlayer /\ InitStore /\ InitSession /\ InitScreenIdle
    /\ InitFaults /\ InitArticle /\ InitSplitter /\ extractor = IdleExtractor
    /\ InitMobileIdle

SpecSplitter == InitForSplitter /\ [][NextSplitter]_vars

\* The extractor applied to alignments and to chunk texts.
InitForExtractor ==
  InitPlayer /\ InitStore /\ InitSession /\ InitScreenIdle
    /\ InitFaults /\ InitArticle /\ splitter = IdleSplitter /\ InitExtractor
    /\ InitMobileIdle

SpecExtractor == InitForExtractor /\ [][NextExtractor]_vars

\* ------------------------------------------------ claims on the sequencer
\* The chunk of the loaded list with the given index (one exists).
ChunkWithIndex(i) == chunks[CHOOSE k \in 1 .. Len(chunks) : chunks[k].index = i]

LoadedIndices == { chunks[k].index : k \in 1 .. Len(chunks) }

RECURSIVE SumOfDurations(_)
SumOfDurations(indices) ==
  IF indices = {} THEN 0
  ELSE LET i == CHOOSE x \in indices : TRUE
       IN ChunkWithIndex(i).duration + SumOfDurations(indices \ {i})

\* Sum of the durations of the loaded chunks with an index below i.
DurationBefore(i) == SumOfDurations({ j \in LoadedIndices : j < i })

\* A step in which the sequencer replaces a finished chunk by advancement:
\* the engine had stopped at the end of its audio while isPlaying, and the
\* timer tick or the arrival of a chunk loaded another handle.
NaturalAdvance ==
  /\ ChunkFinished(PlayerState)
  /\ (UpdateTime \/ AddChunk)
  /\ player'.loaded
  /\ player' # player

\* C1: for every arrival order of chunk indices (in order, out of order, an
\* index missing), the chunk loaded and played after the chunk with index i
\* finished is the chunk with index i+1.
C1_PlayedInIndexOrder ==
  [][NaturalAdvance => (player'.data = player.data + 1 /\ player'.isPlaying)]_vars

\* C1, reached case: chunk 0 finished with chunk 1 missing and chunk 2
\* loaded, and the sequencer moved on (the position shown is the end of
\* chunk 0, the handle is a fresh one).
C1_SkippedIndexReached ==
  /\ LoadedIndices = {0, 2}
  /\ player.loaded /\ player.data = 2 /\ player.isPlaying
  /\ currentTime = DecodedDuration(0)

\* The sequencer is in Playing(chunk i): it is on position i of the list,
\* which holds chunk i, whose audio the engine holds, and it is not waiting.
PlayingChunk(i) ==
  /\ isPlaying /\ ~isWaitingForNextChunk
  /\ player.loaded /\ player.data = i
  /\ currentChunkIndex = i
  /\ currentChunkIndex < Len(chunks)
  /\ chunks[currentChunkIndex + 1].index = i

TotalKnownDuration == SumOfDurations(LoadedIndices)

\* seek: the target clamped to [0, total known duration].
ClampedTarget(time) == Max(0, Min(time, TotalKnownDuration))

\* Start of the chunk at position p of the loaded list.
StartOfPosition(p) == DurationBefore(chunks[p + 1].index)

\* seek: the position of the loaded chunk whose interval contains the
\* target; the last chunk when the target is the total duration.
ChunkContaining(target) ==
  IF target >= TotalKnownDuration THEN Len(chunks) - 1
  ELSE CHOOSE p \in 0 .. (Len(chunks) - 1) :
         /\ StartOfPosition(p) <= target
         /\ target < StartOfPosition(p) + chunks[p + 1].duration

\* A step that is seek(to: t) on a service with a loaded handle.
SeekStep(t) ==
  /\ player.loaded
  /\ chunks # << >>
  /\ SetPlayerState(seek(PlayerState, Ticks(t)))

\* C3: seek(target) clamps the target, makes the loaded chunk whose interval
\* contains it the current one, keeps the play/pause state, and sets the
\* engine's position inside the chunk to target - chunkStart.
C3_SeekSelectsChunk ==
  [][\A t \in SeekTargetsMs :
       SeekStep(t) =>
         LET target == ClampedTarget(Ticks(t))
             sel == ChunkContaining(target)
         IN /\ currentChunkIndex' = sel
            /\ isPlaying' = isPlaying
            /\ player'.loaded
            /\ player'.currentTime = target - StartOfPosition(sel)]_vars

\* C3, the example of the claim: with chunks of 10000, 8000 and 12000 ms
\* loaded, seek(15000) has made chunk 1 current at 5000 ms inside it.
C3_SeekExampleReached ==
  /\ LoadedIndices = {0, 1, 2}
  /\ currentTime = Ticks(15000)
  /\ currentChunkIndex = 1
  /\ player.loaded /\ player.data = 1
  /\ player.currentTime = Ticks(5000)

SucceededFor(q, voiceId, chunkIndex) ==
  /\ requests[q].pc = "responded"
  /\ requests[q].response.status = 200
  /\ requests[q].voiceId = voiceId
  /\ requests[q].chunkIndex = chunkIndex

\* The step in which request r is received, for (voiceId, chunkIndex).
ReceivedFor(r, voiceId, chunkIndex) ==
  /\ requests[r].pc = "idle"
  /\ requests'[r].pc # "idle"
  /\ requests'[r].voiceId = voiceId
  /\ requests'[r].chunkIndex = chunkIndex

FailedAtProvider(r) ==
  /\ requests[r].pc = "responded"
  /\ requests[r].failures # << >>
  /\ requests[r].response.status # 200

\* The step in which the synthesis of request r fails: the last provider
\* call that generateChunk makes for it throws.
SynthesisFails(r) ==
  /\ requests[r].pc = "convertChunkToAudio"
  /\ Len(requests'[r].failures) > Len(requests[r].failures)

C7_ErrorKindPreserved ==
  \A r \in RequestIds :
    FailedAtProvider(r)
    => ( /\ requests[r].caller.rejected
         /\ requests[r].caller.message = requests[r].failures[1] )

\* C7, the failing case: the provider failed the request with quota
\* exceeded and the caller holds a network error.
C7_KindReplaced ==
  \E r \in RequestIds :
    /\ FailedAtProvider(r)
    /\ requests[r].failures[1] = "quota_exceeded"
    /\ requests[r].caller.rejected
    /\ requests[r].caller.message = "network"

\* C8: no automatic retry. A chunk request makes at most one call to the
\* synthesis provider.
C8_AtMostOneProviderCall ==
  \A r \in RequestIds : requests[r].providerCalls <= 1

\* C8, the failing case: a request whose first provider call failed and
\* that has made a second one.
C8_SecondCallMade ==
  \E r \in RequestIds :
    /\ Len(requests[r].failures) >= 1
    /\ requests[r].providerCalls = 2

\* ----------------------------------------- claims on leaving the article
\* The step issues a chunk request: the view model is awaiting
\* generateAudioChunk for an index it was not awaiting before.
ChunkRequestIssued ==
  /\ viewModel'.pc = "generateAudioChunk"
  /\ \/ viewModel.pc # "generateAudioChunk"
     \/ viewModel'.chunkIndex # viewModel.chunkIndex

\* The step loads or starts an audio engine handle.
HandleLoadedOrStarted ==
  \/ player'.loaded /\ ~player.loaded
  \/ player'.loaded /\ player'.data # player.data
  \/ player'.isPlaying /\ ~player.isPlaying

\* C9: cancellation on every exit path. Once the view has disappeared (and
\* cleanup has run), no step issues a chunk request, adds a chunk to the
\* player, or loads or starts an audio engine handle.
C9_NothingAfterLeaving ==
  [][~viewAppeared
     => ( /\ ~ChunkRequestIssued
          /\ Len(chunks') <= Len(chunks)
          /\ ~HandleLoadedOrStarted )]_vars

\* C9, the failing case: the view is gone and the player holds chunks 0 and
\* 1 and an engine handle, all of them put there after cleanup.
C9_ChunksAddedAfterLeaving ==
  /\ ~viewAppeared
  /\ LoadedIndices = {0, 1}
  /\ player.loaded

\* ------------------------------------------ claims on the playback controls
\* The step is a press of the play button or of the audio button.
PlayPausePressed ==
  /\ pressLog' # pressLog
  /\ pressLog'.handler \in { "handleTogglePlayback", "handleAudioButtonPress" }

\* C10: chunk generation never blocks the playback controls. A press of the
\* play button or the audio button while a chunk request is in flight and a
\* sound is loaded pauses or resumes the loaded sound in that step.
C10_ToggleTakesEffect ==
  [][( /\ generation.pc = "generateAudioChunk"
       /\ screen.soundRef.loaded
       /\ PlayPausePressed )
     => ( /\ pressLog'.outcome \in { "pauseAsync", "playAsync" }
          /\ screen'.soundRef.loaded
          /\ screen'.soundRef.isPlaying = ~screen.soundRef.isPlaying )]_vars

\* C10, the failing case: a press was ignored while the request for chunk 1
\* was in flight and the sound of chunk 0 was playing.
C10_PressIgnored ==
  /\ pressLog.outcome = "ignored"
  /\ pressLog.handler = "handleTogglePlayback"
  /\ generation.pc = "generateAudioChunk" /\ generation.i = 1
  /\ screen.soundRef.loaded /\ screen.soundRef.chunkIndex = 0
  /\ screen.soundRef.isPlaying
  /\ screen.isTogglingPlaybackRef

\* ----------------------------------------------- claims on engine failures
\* A step in which decoding a chunk or loading one into the engine failed.
EngineFailure == failureLog' # failureLog

\* C11: when decoding a chunk in addChunk or loading a chunk into the engine
\* (on advancement, on resuming, on seek) fails, the service's published
\* error is set, a sequencer that was playing does not become Complete, the
\* chunk it was on stays the current chunk and the engine does not start
\* playing it again. (That a later load of the chunk can succeed is a
\* possibility: the chunk list is not reduced by the failure.)
C11_FailureReported ==
  [][EngineFailure =>
       ( /\ error' # NoError
         /\ (isPlaying => (isPlaying' \/ isWaitingForNextChunk'))
         /\ currentChunkIndex' = currentChunkIndex
         /\ player'.data = player.data
         /\ (player'.isPlaying => player.isPlaying)
         /\ Len(chunks') >= Len(chunks) )]_vars

\* C11, reached case: the load of the next chunk failed on advancement,
\* nothing was published, and the engine has been started again on the
\* finished chunk.
C11_SilentFailureReached ==
  /\ failureLog.kind = "load"
  /\ error = NoError
  /\ isPlaying
  /\ player.loaded /\ player.isPlaying
  /\ player.currentTime = player.duration
  /\ failureLog.chunk \in LoadedIndices
  /\ failureLog.chunk # player.data

\* ------------------------------------------------- claims on the highlight
\* Word-highlight derivation: the index (from 0) of the word current at
\* global position p (ms) over a timing list that has a word at or before
\* p: the first entry whose [start, end) contains p, else the last entry
\* that ended at or before p.
WordAt(timings, p) ==
  LET holding == { k \in 1 .. Len(timings) :
                     timings[k].start <= p /\ p < timings[k].end }
      spoken == { k \in 1 .. Len(timings) : timings[k].end <= p }
  IN IF holding # {}
     THEN (CHOOSE k \in holding : \A j \in holding : k <= j) - 1
     ELSE (CHOOSE k \in spoken : \A j \in spoken : k >= j) - 1

\* p lies in a word, in the gap after one, or past the last one.
HasWordAt(timings, p) ==
  \E k \in 1 .. Len(timings) : timings[k].start <= p

\* C12: after every seek and every position update, currentWordIndex is the
\* index derived from the new global position over the global timing list
\* (the word containing it; in a gap, the word before the gap; past the
\* last word, the last word), and -1 when no timings are loaded: it never
\* keeps the word of the position before the seek.
C12_WordFollowsPosition ==
  [][(Seek \/ UpdateTime) =>
       ( /\ (allWordTimings' = << >> => currentWordIndex' = 0 - 1)
         /\ (HasWordAt(allWordTimings', MsOf(currentTime'))
              => currentWordIndex' = WordAt(allWordTimings', MsOf(currentTime'))) )]_vars

\* C12, reached case: chunks 0 and 1 are loaded, the position is 9 s, in
\* the gap after the last word of chunk 0 (global index 1), and the word
\* shown is the one of chunk 1 a seek to 15 s had selected (global index 3).
C12_StaleWordReached ==
  /\ LoadedIndices = {0, 1}
  /\ MsOf(currentTime) = 9000
  /\ currentWordIndex = 3

\* ---------------------------------------------- claims on the failing store
\* C13: cache failures are non-fatal for a chunk request. No request ends
\* with the error of the store: a failed read of the cached chunk lets the
\* request proceed as on a miss, and a request whose chunk was synthesized
\* is answered with that chunk's audio and word timings also when writing
\* it to the store failed.
C13_CacheFailureNonFatal ==
  \A r \in RequestIds :
    requests[r].pc = "responded" =>
      /\ requests[r].response.message # CacheUnavailable
      /\ (requests[r].result # NoResult =>
            /\ requests[r].response.status = 200
            /\ requests[r].response.audioData = toBase64(requests[r].result.audio)
            /\ requests[r].response.wordTimings = requests[r].result.wordTimings)

\* C13, reached case: a request whose chunk the provider synthesized has
\* been answered with the error of the store, and the chunk is not stored.
C13_SynthesizedChunkLost ==
  \E r \in RequestIds :
    /\ requests[r].pc = "responded"
    /\ requests[r].result # NoResult
    /\ requests[r].response.status = 500
    /\ requests[r].caller.rejected
    /\ requests[r].caller.message = CacheUnavailable
    /\ ~getCachedChunk(audioChunkCache, requests[r].voiceId,
                       requests[r].chunkIndex).present

\* ------------------------------------------------ claims on the article row
\* A step in which a chunk request generated the chunk (voiceId, chunkIndex)
\* and cached it.
GeneratedAndCached(voiceId, chunkIndex) ==
  /\ ChunkRequestOnRow
  /\ chunkResponse'.voiceId = voiceId /\ chunkResponse'.chunkIndex = chunkIndex
  /\ chunkResponse'.status = 200 /\ ~chunkResponse'.cached
  /\ cachedChunkOf(audioChunksData', voiceId, chunkIndex).present

\* C14: the chunk cache holds entries for several voices of one article at
\* the same time: generating and caching a chunk for (voice B, i) leaves
\* every entry (voice A, j) of another voice A present and retrievable with
\* the data it had, for all indices i and j.
C14_VoicesKeptApart ==
  [][\A voiceA \in ArticleVoices, voiceB \in ArticleVoices,
        i \in ChunkIndices, j \in ChunkIndices :
       ( /\ voiceA # voiceB
         /\ cachedChunkOf(audioChunksData, voiceA, j).present
         /\ GeneratedAndCached(voiceB, i) )
       => cachedChunkOf(audioChunksData', voiceA, j)
            = cachedChunkOf(audioChunksData, voiceA, j)]_vars

\* C14, reached case: chunk 0 was cached for voiceA, then chunk 1 was
\* generated and cached for voiceB; the row holds voiceB's chunk only and a
\* request for (voiceA, 0) would go to the provider again.
C14_OtherVoiceDropped ==
  /\ chunkResponse.voiceId = "voiceB" /\ chunkResponse.chunkIndex = 1
  /\ chunkResponse.status = 200 /\ ~chunkResponse.cached
  /\ cachedChunkOf(audioChunksData, "voiceB", 1).present
  /\ ~cachedChunkOf(audioChunksData, "voiceA", 0).present

\* --------------------------------------------------- claims on the splitter
\* The text is normalized: prepareTextForSpeech leaves it as it is.
IsNormalized(text) == prepareTextForSpeech(text) = text

IsBlank(text) == \A i \in 1 .. Len(text) : IsWhitespace(text[i])

\* chunks.join(' ')
RECURSIVE joinWithSpaces(_)
joinWithSpaces(list) ==
  IF list = << >> THEN << >>
  ELSE IF Len(list) = 1 THEN Head(list)
  ELSE Head(list) \o << " " >> \o joinWithSpaces(Tail(list))

\* s.replace(/\s+/g, ' ').trim()
collapseWhitespace(s) ==
  trim(Pick(s, 1, { i \in 1 .. Len(s) :
                      ~(i >= 2 /\ IsWhitespace(s[i]) /\ IsWhitespace(s[i - 1])) }))

SameModuloWhitespace(s, t) ==
  LET a == collapseWhitespace(s)
      b == collapseWhitespace(t)
  IN /\ Len(a) = Len(b)
     /\ \A i \in 1 .. Len(a) :
          \/ a[i] = b[i]
          \/ (IsWhitespace(a[i]) /\ IsWhitespace(b[i]))

\* C15: chunk size bound. For every input text, every chunk returned by
\* splitIntoChunks is at most the maximum chunk size long, also when the
\* text has no sentence end, newline or space past the threshold and is
\* hard-split; so is the chunk text generateChunk works on.
C15_ChunkSizeBound ==
  /\ (splitter.call = "splitIntoChunks" =>
        \A k \in 1 .. Len(splitter.chunks) :
          Len(splitter.chunks[k]) <= MaxChunkChars)
  /\ (splitter.call = "generateChunk" => Len(splitter.chunkText) <= MaxChunkChars)

\* C15, reached case: a text without whitespace, longer than the maximum,
\* has been hard-split: its first chunk is exactly the maximum long.
C15_HardSplitReached ==
  /\ splitter.call = "splitIntoChunks"
  /\ \A i \in 1 .. Len(splitter.text) : ~IsWhitespace(splitter.text[i])
  /\ Len(splitter.text) > MaxChunkChars
  /\ Len(splitter.chunks) >= 2
  /\ Len(splitter.chunks[1]) = MaxChunkChars

\* C16: lossless reconstruction. For every normalized input text, the
\* chunks returned by splitIntoChunks joined with single spaces give, after
\* collapsing whitespace runs, the input with its whitespace runs
\* collapsed, also for a text that is hard-split at the maximum chunk size.
C16_LosslessReconstruction ==
  (splitter.call = "splitIntoChunks" /\ IsNormalized(splitter.text))
    => SameModuloWhitespace(joinWithSpaces(splitter.chunks), splitter.text)

\* C16, reached case: a word longer than the maximum has been cut in two
\* chunks, which join to two words.
C16_WordCutReached ==
  /\ splitter.call = "splitIntoChunks"
  /\ splitter.text = << "a", "a", "a", "a", "a", "a" >>
  /\ splitter.chunks = << << "a", "a", "a", "a", "a" >>, << "a" >> >>

SortedByStart(wordTimings) ==
  \A i, j \in 1 .. Len(wordTimings) :
    i < j => wordTimings[i].start <= wordTimings[j].start

StartNotAfterEnd(wordTimings) ==
  \A i \in 1 .. Len(wordTimings) : wordTimings[i].start <= wordTimings[i].end

\* C18: word-timing monotonicity. The word timings the extractor produces
\* for a chunk, from a character alignment with non-decreasing times
\* (convertWithTimestamps) and by the estimation for any chunk text and
\* any estimated duration (generateEstimatedWordTimings of both
\* providers), are sorted by start and have start <= end in every entry.
C18_TimingsMonotone ==
  extractor.call # "none"
    => /\ SortedByStart(extractor.wordTimings)
       /\ StartNotAfterEnd(extractor.wordTimings)

\* C18, reached case: the estimation for a chunk of two words whose audio
\* is estimated at 12 ms has given the first word an end before its start.
C18_EndBeforeStartReached ==
  /\ extractor.call = "generateEstimatedWordTimings"
  /\ extractor.audioDurationMs = 12
  /\ Len(extractor.wordTimings) = 2
  /\ extractor.wordTimings[1].end < extractor.wordTimings[1].start

\* C18, the paths that keep the order: the alignment path and the
\* on-device estimation.
C18_OtherPathsMonotone ==
  extractor.call \in { "convertWithTimestamps", "generateEstimatedWordTimingsOnDevice" }
    => /\ SortedByStart(extractor.wordTimings)
       /\ StartNotAfterEnd(extractor.wordTimings)

\* ------------------------------------- claims on waiting for the next chunk
\* The tick of the update timer that finds chunk i finished while the
\* sequencer is in Playing(chunk i) and chunk i+1 is not in the loaded list.
\* The loaded chunks are chunks of the article (index below totalChunks).
CompletionWithoutNext(i) ==
  /\ PlayingChunk(i)
  /\ ChunkFinished(PlayerState)
  /\ (i + 1) \notin LoadedIndices
  /\ \A j \in LoadedIndices : j < totalChunks
  /\ UpdateTime

\* The sequencer is in WaitingForNextChunk after chunk i: the flag is set,
\* the engine still holds the finished chunk i and is silent.
WaitingAfter(i) ==
  /\ isWaitingForNextChunk
  /\ currentChunkIndex = i
  /\ player.loaded /\ player.data = i /\ ~player.isPlaying

\* A step of the user that ends the waiting: pause (also by toggle), stop,
\* one of the calls that stop (cleanup, prepareForChunkedAudio), or a seek,
\* which moves the sequencer to the chunk of the target.
PausedOrStopped ==
  Pause \/ TogglePlayPause \/ Stop \/ Cleanup \/ PrepareForChunkedAudio \/ Seek

\* C19: on natural completion of chunk i when chunk i+1 is not loaded, the
\* sequencer enters WaitingForNextChunk if i+1 < totalChunks, and Complete
\* (isPlaying false, isWaitingForNextChunk false) if i+1 = totalChunks; and
\* once in WaitingForNextChunk after chunk i it stays there until chunk
\* i+1 arrives or the user pauses or stops.
C19_WaitsOrCompletes ==
  [][\A i \in ChunkIndices :
       /\ CompletionWithoutNext(i)
            => IF i + 1 < totalChunks
               THEN isWaitingForNextChunk' /\ currentChunkIndex' = i
                    /\ player'.data = i /\ ~player'.isPlaying
               ELSE ~isPlaying' /\ ~isWaitingForNextChunk'
       /\ (WaitingAfter(i) /\ ~WaitingAfter(i)')
            => \/ PausedOrStopped
               \/ (AddChunk /\ (i + 1) \in LoadedIndices')]_vars

\* C19, reached case: while the sequencer waited for chunk 1 after chunk 0,
\* chunk 2 arrived, and the next tick started it: the engine plays chunk 2
\* with isWaitingForNextChunk still set.
C19_PlaysWhileWaitingReached ==
  /\ LoadedIndices = {0, 2}
  /\ totalChunks = 3
  /\ isWaitingForNextChunk
  /\ player.loaded /\ player.data = 2 /\ player.isPlaying

\* C19, with no chunk loaded after chunk i: the list ends at the current
\* position, and the sequencer waits or completes as stated.
C19_WaitsOrCompletesAtEndOfList ==
  [][\A i \in ChunkIndices :
       (CompletionWithoutNext(i) /\ currentChunkIndex + 1 >= Len(chunks))
         => IF i + 1 < totalChunks
            THEN isWaitingForNextChunk' /\ currentChunkIndex' = i
                 /\ player'.data = i /\ ~player'.isPlaying
            ELSE ~isPlaying' /\ ~isWaitingForNextChunk']_vars

\* addChunk delivers (and decodes) the chunk with the given index.
Delivers(index) ==
  /\ (AddChunk \/ AddChunkOfLongArticle)
  /\ index \notin LoadedIndices
  /\ LoadedIndices' = LoadedIndices \cup {index}

\* The delivered chunk is the one the sequencer is on after the step, and
\* the engine plays it from its start.
ResumedWith(index) ==
  /\ ~isWaitingForNextChunk'
  /\ currentChunkIndex' = index
  /\ isPlaying'
  /\ player'.loaded /\ player'.data = index
  /\ player'.isPlaying /\ player'.currentTime = 0

\* C20: when the sequencer is in WaitingForNextChunk and addChunk delivers
\* exactly the index currentChunkIndex + 1, the same step leaves the
\* waiting state, loads that chunk into the engine and plays it:
\* isWaitingForNextChunk false, currentChunkIndex advanced by one,
\* isPlaying true, the engine playing the delivered chunk from its start.
C20_ResumesOnArrival ==
  [][(isWaitingForNextChunk /\ Delivers(currentChunkIndex + 1))
       => ResumedWith(currentChunkIndex + 1)]_vars

\* C20, reached case: the sequencer waited after chunk 0, chunk 3 arrived
\* and a tick started it with isWaitingForNextChunk still set; then chunk 2
\* (currentChunkIndex + 1) arrived, and the arrival started chunk 3 again
\* from position 2 of the list.
C20_WrongChunkResumedReached ==
  /\ LoadedIndices = {0, 2, 3}
  /\ ~isWaitingForNextChunk
  /\ currentChunkIndex = 2
  /\ isPlaying
  /\ player.loaded /\ player.data = 3 /\ player.isPlaying /\ player.currentTime = 0
  /\ currentTime = DecodedDuration(0)

\* C20, from the waiting state proper (the engine silent on the finished
\* chunk i at position i): the arrival of chunk i+1 resumes with it.
C20_ResumesFromSilentWait ==
  [][\A i \in LongArticleIndices :
       (WaitingAfter(i) /\ chunks[i + 1].index = i /\ Delivers(i + 1))
         => ResumedWith(i + 1)]_vars

\* C20, reached case of the waiting state proper: the sequencer waited
\* after chunk 0, chunk 1 arrived, and the arrival left it playing chunk 1
\* from its start, the shown position still at the end of chunk 0.
C20_ResumedReached ==
  /\ LoadedIndices = {0, 1}
  /\ chunksLoaded = 2 /\ isLoadingChunks
  /\ currentTime = DecodedDuration(0)
  /\ currentChunkIndex = 1
  /\ isPlaying /\ ~isWaitingForNextChunk
  /\ player.loaded /\ player.data = 1 /\ player.isPlaying /\ player.currentTime = 0

\* ------------------------------------------- claims on the waiting flag
\* The chunk after the current one is not loaded: the list has no position
\* after the current one, or no loaded chunk has the index after the index
\* of the chunk the sequencer is on.
NextChunkNotLoaded ==
  \/ currentChunkIndex + 1 >= Len(chunks)
  \/ (chunks[currentChunkIndex + 1].index + 1) \notin LoadedIndices

\* C25: in every reachable state of AudioPlayerService,
\* isWaitingForNextChunk is true only if the chunk after the current one
\* is not loaded and currentChunkIndex + 1 < totalChunks, and it is never
\* true while the engine is playing a chunk.
C25_WaitingFlagMeaning ==
  isWaitingForNextChunk
    => /\ NextChunkNotLoaded
       /\ currentChunkIndex + 1 < totalChunks
       /\ ~(player.loaded /\ player.isPlaying)

\* C25, reached case: all three chunks of the article are loaded, the
\* sequencer is on the last one and the engine plays it, and
\* isWaitingForNextChunk is set.
C25_WaitingWhilePlayingLastReached ==
  /\ totalChunks = 3
  /\ LoadedIndices = {0, 1, 2}
  /\ currentChunkIndex = 2
  /\ player.loaded /\ player.data = 2 /\ player.isPlaying
  /\ isWaitingForNextChunk

\* ------------------------------------------- claims on the audio handle
\* C26: in every reachable state of AudioPlayerService in which an audio
\* handle is loaded, the handle holds the audio of the chunk at
\* currentChunkIndex, so that chunkStartTimes[currentChunkIndex] plus the
\* engine position is a position in the audio that is loaded.
C26_HandleIsCurrentChunk ==
  player.loaded
    => /\ currentChunkIndex < Len(chunks)
       /\ currentChunkIndex < Len(chunkStartTimes)
       /\ chunks[currentChunkIndex + 1].data = player.data

\* C26, reached case: after stop() the sequencer is on position 0 while
\* the handle still holds chunk 1, halted where it was stopped.
C26_StaleHandleAfterStopReached ==
  /\ LoadedIndices = {0, 1}
  /\ currentChunkIndex = 0 /\ currentTime = 0
  /\ ~isPlaying
  /\ player.loaded /\ player.data = 1 /\ player.currentTime > 0

\* ---------------------------------------- claims on the loaded chunk list
NoTwoChunksWithOneIndex ==
  \A i, j \in 1 .. Len(chunks) : i # j => chunks[i].index # chunks[j].index

\* C30: in every reachable state of AudioPlayerService, chunksLoaded is at
\* most totalChunks and the loaded list holds no two chunks with the same
\* index, after any sequence of prepareForChunkedAudio, addChunk and
\* cleanup, also when an addChunk arrives after cleanup or repeats an index.
C30_LoadedListWellFormed ==
  /\ chunksLoaded <= totalChunks
  /\ NoTwoChunksWithOneIndex

\* C30, reached case: prepared for two chunks, the list holds chunk 0
\* twice and chunk 1, and chunksLoaded is 3.
C30_RepeatedIndexReached ==
  /\ totalChunks = 2
  /\ Len(chunks) = 3
  /\ chunks[1].index = 0 /\ chunks[2].index = 0 /\ chunks[3].index = 1
  /\ chunksLoaded = 3
  /\ ~isLoadingChunks

\* C30, reached case: an addChunk after cleanup has put a chunk into the
\* list of a service that expects none.
C30_ArrivalAfterCleanupReached ==
  /\ totalChunks = 0
  /\ chunksLoaded = 1 /\ Len(chunks) = 1
  /\ ~isLoadingChunks


\* ------------------------------------------------ claims on the play rate
\* The entry of playbackSpeeds after the given rate, wrapping at the end.
NextSpeedAfter(rate) ==
  LET k == CHOOSE j \in 1 .. Len(playbackSpeeds) : playbackSpeeds[j] = rate
  IN playbackSpeeds[(k % Len(playbackSpeeds)) + 1]

\* AudioPlayerService: cyclePlaybackRate moves playbackRate to the next
\* entry of the list, wrapping from 2.0 to 1.0, and the handle of every
\* loaded chunk has the rate playbackRate.
RateKeptBySequencer ==
  /\ [][CyclePlaybackRate => playbackRate' = NextSpeedAfter(playbackRate)]_vars
  /\ [](player.loaded => player.rate = playbackRate)

\* AudioPlayerService, reached case: the rate was cycled to 1.5, and the
\* advancement to chunk 1 loaded it at 1.5.
RateKeptBySequencerReached ==
  /\ playbackRate = 15
  /\ currentChunkIndex = 1 /\ currentTime = DecodedDuration(0)
  /\ player.loaded /\ player.data = 1 /\ player.isPlaying /\ player.rate = 15

\* The chunk whose interval [start, start + duration) contains the global
\* position, among the stored chunks; the last one for a position at the end.
StoredChunkContaining(positionMillis) ==
  LET within == { i \in 0 .. (playback.audioChunksRef - 1) :
                    /\ positionMillis >= EstimatedDurationBefore(i)
                    /\ positionMillis < EstimatedDurationBefore(i + 1) }
  IN IF within # {} THEN CHOOSE i \in within : TRUE
     ELSE playback.audioChunksRef - 1

\* C22: cyclePlaybackRate moves playbackRate to the next entry of the list
\* [1.0, 1.2, 1.5, 1.7, 2.0], wrapping from 2.0 to 1.0, and the rate
\* persists across chunk transitions: whenever a chunk is loaded into the
\* engine, the engine's rate equals the current playbackRate. Here for the
\* mobile screen: the sound that playChunk has loaded and started has the
\* rate of the current playback speed.
C22_RatePersists ==
  (playback.soundRef.ref /\ playback.soundRef.isPlaying)
    => /\ playback.playbackSpeedRef = playback.playbackSpeed
       /\ playback.soundRef.rate = playback.playbackSpeed

\* C22, reached case: the speed was changed to 1.2 while playChunk was
\* creating the sound of chunk 1, and chunk 1 plays at 1.0.
C22_StaleRateReached ==
  /\ playback.playbackSpeed = 12 /\ playback.playbackSpeedRef = 12
  /\ playback.soundRef.ref /\ playback.soundRef.chunkIndex = 1
  /\ playback.soundRef.isPlaying
  /\ playback.soundRef.rate = 10
  /\ playback.playChunk.pc = "idle"

\* C22, the step of the speed button in the mobile screen: the next entry
\* of the list, wrapping at the end.
C22_SpeedCycles ==
  [][PlaybackChangeSpeed
       => playback'.playbackSpeed = NextSpeedAfter(playback.playbackSpeed)]_vars

\* C24: in the mobile screen with chunked audio, a seek or skip to a global
\* position that lies in a different chunk than the one loaded moves
\* playback to the chunk whose interval contains the position, at the
\* offset position minus the chunk's start; a global position is never
\* applied as an offset inside the chunk that is loaded.
C24_SeekAcrossChunks ==
  [][(PlaybackSeek \/ PlaybackSkipForward \/ PlaybackSkipBack)
       => LET asked == playback'.positionAsked
              target == StoredChunkContaining(asked)
          IN target # playback.soundRef.chunkIndex
               => \/ /\ playback'.soundRef.chunkIndex = target
                     /\ playback'.soundRef.positionMillis =
                          asked - EstimatedDurationBefore(target)
                  \/ /\ playback'.playChunk.pc = "createAsync"
                     /\ playback'.playChunk.chunkIndex = target]_vars

\* C24, reached case: with chunk 1 loaded (it starts at 10000 ms) the
\* slider was released at 3000 ms, and chunk 1 is at its offset 3000 ms:
\* the position shown is 13000 ms.
C24_GlobalPositionInsideChunkReached ==
  /\ playback.positionAsked = 3000
  /\ playback.soundRef.ref /\ playback.soundRef.chunkIndex = 1
  /\ playback.soundRef.positionMillis = 3000
  /\ playback.audioPosition = 13000

\* ------------------------------------------------------ claims on liveness
\* The sequencer is in Complete after the last chunk.
PlaybackComplete ==
  /\ ~isPlaying /\ ~isWaitingForNextChunk
  /\ chunksLoaded = totalChunks

\* C27: liveness of AudioPlayerService. If playback has been started, every
\* one of the totalChunks chunks is eventually added, and the user issues
\* no pause, stop or seek, then the sequencer eventually reaches completion
\* after the last chunk (isPlaying false, isWaitingForNextChunk false)
\* having played every chunk; it does not remain in WaitingForNextChunk
\* once the awaited chunk has been added.
C27_PlaysEveryChunkToCompletion ==
  listening.started
    ~> (PlaybackComplete /\ listening.heard = 0 .. (totalChunks - 1))

\* C27, reached case: the session ended in Complete after three chunks,
\* with chunk 1 never played.
C27_CompleteWithChunkUnheardReached ==
  /\ listening.started
  /\ totalChunks = 3 /\ LoadedIndices = {0, 1, 2}
  /\ PlaybackComplete
  /\ listening.heard = {0, 2}

\* C27, completion alone: a started session reaches Complete.
C27_ReachesCompletion == listening.started ~> PlaybackComplete

\* ------------------------------------------- claims on the press handlers
\* No press is running: nobody holds isTogglingPlaybackRef.
NoPressRunning == ~screen.isTogglingPlaybackRef

\* C29: pressing the play/pause toggle when no sound is loaded makes
\* handleAudioButtonPress do its work (resume the loaded chunks, start chunk
\* generation, or open the audio control modal); the isTogglingPlaybackRef
\* guard drops only presses that overlap an earlier press that is still
\* running.
C29_ToggleWithoutSoundWorks ==
  [][ /\ ( ScreenPressPlayButton /\ ~screen.soundRef.ref /\ NoPressRunning )
          => pressLog'.outcome \in
               { "playChunk", "generateAudio", "showAudioControlModal" }
      /\ ( (ScreenPressPlayButton \/ ScreenPressAudioButton) /\ NoPressRunning )
          => pressLog'.outcome # "ignored" ]_vars

\* C29, the failing case: no sound is loaded, chunks are stored, nothing is
\* running, and the press of the play button was ignored.
C29_ToggleIgnoredReached ==
  /\ pressLog = [handler |-> "handleTogglePlayback", outcome |-> "ignored"]
  /\ ~screen.soundRef.ref
  /\ Len(screen.audioChunksRef) > 0
  /\ generation.pc = "idle"
  /\ NoPressRunning

\* C29, the audio button: pressed with no press running it does its work,
\* and holds the guard afterwards only while generateAudio runs.
C29_AudioButtonWorks ==
  [][ ( ScreenPressAudioButton /\ NoPressRunning )
        => /\ pressLog'.outcome # "ignored"
           /\ screen'.isTogglingPlaybackRef
                => pressLog'.outcome = "generateAudio" ]_vars

\* ------------------------------------- claims on the wait for a chunk
\* The index of the chunk after the one of the loaded sound.
NextOfSound == screen.soundRef.chunkIndex + 1

\* The loaded sound finishes in this step while the generation loop runs
\* and the next chunk, which the loop will request, is not stored yet.
FinishesBeforeNextArrives ==
  /\ ScreenSoundFinishes
  /\ screen.isLoadingChunksRef /\ ~screen.shouldStopLoadingRef
  /\ generation.pc = "generateAudioChunk"
  /\ NextOfSound >= Len(screen.audioChunksRef)
  /\ NextOfSound < generation.total

\* C23: in the mobile screen's playChunk, when chunk i finishes while the
\* generation loop is still running and chunk i+1 has not arrived yet,
\* playback is not ended: playChunk re-checks on a timer until chunk i+1
\* has been stored and then plays it.
C23_WaitsForNextChunk ==
  [][ /\ FinishesBeforeNextArrives => screen'.waitingFor = NextOfSound
      /\ ( ScreenWaitTimer /\ screen.waitingFor < Len(screen.audioChunksRef) )
          => /\ screen'.soundRef.loaded /\ screen'.soundRef.isPlaying
             /\ screen'.soundRef.chunkIndex = screen.waitingFor ]_vars

\* C23, the failing case: chunk 0 finished while the request for chunk 1
\* was in flight; nothing waits for chunk 1 and playback has ended.
C23_EndedWhileLoadingReached ==
  /\ generation.pc = "generateAudioChunk" /\ generation.i = 1
  /\ screen.isLoadingChunksRef /\ ~screen.shouldStopLoadingRef
  /\ Len(screen.audioChunksRef) = 1
  /\ screen.soundRef.chunkIndex = 0 /\ ~screen.soundRef.isPlaying
  /\ screen.currentChunkIndex = 1
  /\ screen.waitingFor < 0
  /\ ~screen.isPlaying

\* C23, the timer: once the wait has started, a tick plays the chunk when
\* it is stored, keeps waiting while the loop runs, and ends playback when
\* loading has stopped without the chunk.
C23_TimerRechecks ==
  [][ ScreenWaitTimer
        => IF screen.waitingFor < Len(screen.audioChunksRef)
           THEN /\ screen'.soundRef.isPlaying
                /\ screen'.soundRef.chunkIndex = screen.waitingFor
           ELSE IF screen.isLoadingChunksRef
                THEN screen'.waitingFor = screen.waitingFor
                ELSE ~screen'.isPlaying /\ screen'.waitingFor < 0 ]_vars

\* --------------------------------------- claims on the generation loops
\* Position i of the list l holds the audio of chunk index i.
ChunksInPlace(l) == \A k \in 1 .. Len(l) : l[k] = k - 1

\* C28: at most one generation loop writes to the shared chunk list.
\* Position i of audioChunksRef always holds the audio of chunk index i of
\* the current generation session; a loop that was told to stop (clear
\* audio, unmount) or was superseded by a new generateAudio call, and whose
\* chunk request is still in flight, never appends a chunk to the list and
\* never resumes requesting chunks.
C28_OneLoopWrites ==
  [][ /\ ChunksInPlace(screen'.audioChunksRef)
      /\ ScreenStaleChunkReturns
          => /\ screen'.audioChunksRef = screen.audioChunksRef
             /\ staleGeneration'.pc = "idle"
      /\ ( ScreenChunkReturns /\ screen.shouldStopLoadingRef )
          => /\ screen'.audioChunksRef = screen.audioChunksRef
             /\ generation'.pc = "idle" ]_vars

\* C28, the failing case: the superseded loop stored its chunk 1 at
\* position 0 of the list of the later session and requests its chunk 2,
\* while the later session waits for its chunk count.
C28_StaleLoopResumedReached ==
  /\ staleGeneration.pc = "generateAudioChunk" /\ staleGeneration.i = 2
  /\ generation.pc = "getAudioChunkCount"
  /\ screen.audioChunksRef = << 1 >>
  /\ ~screen.shouldStopLoadingRef

\* C28, the failing case after clear audio: the stopped loop stored its
\* chunk in the cleared list.
C28_AppendedAfterClearReached ==
  /\ generation.pc = "idle" /\ staleGeneration.pc = "idle"
  /\ screen.shouldStopLoadingRef
  /\ screen.mounted /\ ~screen.showPlayerControls
  /\ screen.audioChunksRef = << 1 >>

\* ------------------------------------- claims on the order of the requests
\* The indices of the chunks the step added to the player.
IndicesAdded ==
  IF Len(chunks') > Len(chunks)
  THEN { chunks'[k].index : k \in 1 .. Len(chunks') } \ LoadedIndices
  ELSE {}

\* C21: within one generation session the client requests chunk i+1 only
\* after the response for chunk i has been received and handed to the
\* player, so at most one chunk request is in flight at any time and chunks
\* are delivered to the player in index order 0, 1, 2, ...; playback of
\* chunk 0 can start while later chunks are still being requested.
C21_SequentialInOrder ==
  [][ /\ ChunkRequestIssued
          => \/ /\ viewModel'.chunkIndex = 0
                /\ viewModel.pc = "getAudioChunkCount"
             \/ /\ viewModel'.chunkIndex = viewModel.chunkIndex + 1
                /\ viewModel.pc = "generateAudioChunk"
                /\ VMChunkReturns
      /\ Len(chunks') > Len(chunks)
          => /\ viewModel.pc = "generateAudioChunk"
             /\ IndicesAdded = { viewModel.chunkIndex }
             /\ \A index \in LoadedIndices : index < viewModel.chunkIndex ]_vars

\* C21, reached case: chunk 0 is playing, chunk 1 has been delivered and
\* the request for chunk 2 is in flight.
C21_PlayingWhileRequestingReached ==
  /\ viewModel.pc = "generateAudioChunk" /\ viewModel.chunkIndex = 2
  /\ LoadedIndices = {0, 1}
  /\ isPlaying /\ player.isPlaying /\ player.data = 0

\* C21, the mobile screen: a chunk is stored only by the loop that awaited
\* it, at the position of its index, and the request for the next index
\* follows in the same step.
C21_ScreenSequentialInOrder ==
  [][ ScreenChunkReturns
        => /\ generation.pc = "generateAudioChunk"
           /\ screen'.audioChunksRef = Append(screen.audioChunksRef, generation.i)
           /\ generation'.pc = "generateAudioChunk"
                => generation'.i = generation.i + 1 ]_vars
====
